---------------------------- MODULE Spec2Model ----------------------------
(***************************************************************************)
(* A model of the PAI memory tools: the weekly synthesis pipeline          *)
(* (WeeklySynthesis.ts), the linear search (MemorySearch.ts), the SQLite   *)
(* index store (MemoryDatabase.ts) and the JSON work-state document        *)
(* (CurrentWorkManager.ts).                                                *)
(*                                                                         *)
(* Text is modelled as a sequence of one-character strings, so that the    *)
(* regular expressions and substring tests of the source are computed on   *)
(* characters and not assumed.                                             *)
(*                                                                         *)
(* The four tools share no state in the source.  Each has its own          *)
(* specification (SpecSynth, SpecSearch, SpecDb, SpecState); a              *)
(* specification leaves the variables of the other tools at their idle     *)
(* value.                                                                  *)
(***************************************************************************)
EXTENDS Integers, Sequences, FiniteSets, TLC

VARIABLES
    sFiles,      \* synthesis: the learning files on disk, in enumeration order
    sPc,         \* synthesis: position of main(): "idle", "loaded", "done"
    sLearnings,  \* synthesis: the result of loadLearnings
    sResult,     \* synthesis: the SynthesisResult of synthesize
    mDisk,       \* linear search: the files under MEMORY, by path
    mTz,         \* linear search: the process's offset from UTC, in hours
    mOut,        \* linear search: the arguments and result of the last search
    dDisk,       \* database: the files under MEMORY that the sync scans
    dDb,         \* database: the memories table and its full-text index
    dOut,        \* database: the report of the last command
    wFile,       \* state: the file session-continuity.json
    iFile,       \* state: the file memory-index.json
    wOut,        \* state: the report of the last operation
    wToday,      \* state: the day on which the operations run
    cNow,        \* command line: the time of the run, in hours
    cTz,         \* command line: the process's offset from UTC, in hours
    cCorpus,     \* command line: the learning files on disk, in enumeration order
    cReports,    \* command line: the paths of the synthesis reports on disk
    cIndex,      \* command line: the file memory-index.json
    cOut,        \* command line: the report of the last invocation
    rFile,       \* two processes: the JSON document they share
    rProc,       \* two processes: each process's position and in-memory copy
    rLast,       \* two processes: the writes so far, in order
    eIn,         \* one record: the file that the sync reads
    eOut,        \* one record: the Memory built for it
    gResult,     \* report: the SynthesisResult to render
    gClock,      \* report: the system clock, in milliseconds
    gReports,    \* report: the texts generateMarkdown returned, in call order
    lDisk,       \* context loader: the files under MEMORY/LEARNING, in readdir order
    lOut         \* context loader: the cutoff and result of loadRecentLearnings

synthVars == <<sFiles, sPc, sLearnings, sResult>>
searchVars == <<mDisk, mTz, mOut>>
dbVars == <<dDisk, dDb, dOut>>
stateVars == <<wFile, iFile, wOut, wToday>>
cliVars == <<cNow, cTz, cCorpus, cReports, cIndex, cOut>>
raceVars == <<rFile, rProc, rLast>>
metaVars == <<eIn, eOut>>
reportVars == <<gResult, gClock, gReports>>
loaderVars == <<lDisk, lOut>>

-----------------------------------------------------------------------------
(* Characters and strings                                                  *)

UpperCase == <<"A","B","C","D","E","F","G","H","I","J","K","L","M","N","O","P","Q","R","S","T","U","V","W","X","Y","Z">>
LowerCase == <<"a","b","c","d","e","f","g","h","i","j","k","l","m","n","o","p","q","r","s","t","u","v","w","x","y","z">>
Digits == <<"0","1","2","3","4","5","6","7","8","9">>

Range(s) == {s[i] : i \in DOMAIN s}

IsUpper(c) == c \in Range(UpperCase)
IsLower(c) == c \in Range(LowerCase)
IsDigit(c) == c \in Range(Digits)

\* String.prototype.toLowerCase, one character.
LowerChar(c) ==
    IF IsUpper(c) THEN LowerCase[CHOOSE i \in DOMAIN UpperCase : UpperCase[i] = c] ELSE c

\* String.prototype.toLowerCase.
toLowerCase(s) == [i \in DOMAIN s |-> LowerChar(s[i])]

\* The value of one decimal digit.
DigitValue(c) == (CHOOSE i \in DOMAIN Digits : Digits[i] = c) - 1

\* Whether p occurs in s at position i (1-based).
OccursAt(s, p, i) ==
    /\ i >= 1
    /\ i + Len(p) - 1 <= Len(s)
    /\ \A k \in 1..Len(p) : s[i + k - 1] = p[k]

\* String.prototype.includes.
Includes(s, p) == \E i \in 1..(Len(s) + 1) : OccursAt(s, p, i)

\* The end (exclusive) of the maximal run of characters satisfying the class
\* that starts at position i.
RECURSIVE RunEnd(_, _, _)
RunEnd(s, i, class) ==
    IF i <= Len(s) /\ s[i] \in class THEN RunEnd(s, i + 1, class) ELSE i

\* parseInt of a run of decimal digits.
RECURSIVE parseInt(_)
parseInt(ds) ==
    IF ds = <<>> THEN 0
    ELSE 10 * parseInt(SubSeq(ds, 1, Len(ds) - 1)) + DigitValue(ds[Len(ds)])

\* The elements of a sequence, each kept at its first occurrence
\* ([...new Set(xs)]).
RECURSIVE Dedup(_)
Dedup(xs) ==
    IF xs = <<>> THEN <<>>
    ELSE LET init == Dedup(SubSeq(xs, 1, Len(xs) - 1))
             last == xs[Len(xs)]
         IN  IF last \in Range(init) THEN init ELSE Append(init, last)

RECURSIVE Concat(_)
Concat(ss) == IF ss = <<>> THEN <<>> ELSE Head(ss) \o Concat(Tail(ss))

RECURSIVE SumSeq(_)
SumSeq(ns) == IF ns = <<>> THEN 0 ELSE Head(ns) + SumSeq(Tail(ns))

\* A stable sort of xs, ascending by the keys given beside it (keys[i] is the
\* key of xs[i]); Array.prototype.sort is stable.
RECURSIVE StableSortAsc(_, _)
StableSortAsc(xs, keys) ==
    IF xs = <<>> THEN <<>>
    ELSE LET m == Len(xs) - 1
             init == StableSortAsc(SubSeq(xs, 1, m), SubSeq(keys, 1, m))
             \* the last element goes after every element not greater than it
             n == Cardinality({j \in 1..m : keys[j] <= keys[m + 1]})
         IN  SubSeq(init, 1, n) \o <<xs[m + 1]>> \o SubSeq(init, n + 1, m)

-----------------------------------------------------------------------------
(* WeeklySynthesis.ts                                                      *)

\* `rating` of a Learning that has none (undefined).
NoRating == -1

\* The fixed vocabulary of extractKeywords.
techTerms == <<
    <<"b","u","g">>,
    <<"f","i","x">>,
    <<"e","r","r","o","r">>,
    <<"i","s","s","u","e">>,
    <<"p","r","o","b","l","e","m">>,
    <<"f","e","a","t","u","r","e">>,
    <<"i","m","p","l","e","m","e","n","t">>,
    <<"a","d","d">>,
    <<"c","r","e","a","t","e">>,
    <<"r","e","f","a","c","t","o","r">>,
    <<"o","p","t","i","m","i","z","e">>,
    <<"i","m","p","r","o","v","e">>,
    <<"t","e","s","t">>,
    <<"d","e","b","u","g">>,
    <<"d","e","p","l","o","y">>,
    <<"a","p","i">>,
    <<"d","a","t","a","b","a","s","e">>,
    <<"h","o","o","k">>,
    <<"s","k","i","l","l">>,
    <<"s","e","s","s","i","o","n">>,
    <<"m","e","m","o","r","y">>,
    <<"l","e","a","r","n","i","n","g">>,
    <<"c","o","n","t","e","x","t">> >>

\* The character class [a-zA-Z0-9_-] of the hashtag pattern.
TagChars == Range(UpperCase) \cup Range(LowerCase) \cup Range(Digits) \cup {"_", "-"}

\* content.match(/#[a-zA-Z0-9_-]+/g) || [], scanning from position i.
RECURSIVE MatchHashtags(_, _)
MatchHashtags(content, i) ==
    IF i > Len(content) THEN <<>>
    ELSE IF content[i] = "#" /\ RunEnd(content, i + 1, TagChars) > i + 1
         THEN LET e == RunEnd(content, i + 1, TagChars)
              IN  <<SubSeq(content, i, e - 1)>> \o MatchHashtags(content, e)
         ELSE MatchHashtags(content, i + 1)

\* extractKeywords: the hashtags in order of occurrence, then the vocabulary
\* terms the lower-cased content includes, without repetitions.
extractKeywords(content) ==
    LET tags == MatchHashtags(content, 1)
        lowerContent == toLowerCase(content)
        terms == SelectSeq(techTerms, LAMBDA term : Includes(lowerContent, term))
    IN  Dedup(tags \o terms)

\* The length of the alternative of (?:rating|RATE), case-insensitive, that
\* matches at position p; 0 when none does.
RatingWordAt(content, p) ==
    LET lc == toLowerCase(content)
    IN  IF OccursAt(lc, <<"r","a","t","i","n","g">>, p) THEN 6
        ELSE IF OccursAt(lc, <<"r","a","t","e">>, p) THEN 4
        ELSE 0

\* The position of the first digit at or after position e that `.*?` can
\* reach (`.` matches no line terminator); 0 when there is none.
RECURSIVE FirstDigitOnLine(_, _)
FirstDigitOnLine(content, e) ==
    IF e > Len(content) \/ content[e] \in {"\n", "\r"} THEN 0
    ELSE IF IsDigit(content[e]) THEN e
    ELSE FirstDigitOnLine(content, e + 1)

\* content.match(/(?:rating|RATE).*?(\d+)/i): the leftmost position where the
\* pattern matches, then parseInt of the captured digits; NoRating when none.
extractRating(content) ==
    LET starts == {p \in 1..Len(content) :
                     /\ RatingWordAt(content, p) > 0
                     /\ FirstDigitOnLine(content, p + RatingWordAt(content, p)) > 0}
    IN  IF starts = {} THEN NoRating
        ELSE LET p == CHOOSE q \in starts : \A r \in starts : q <= r
                 d == FirstDigitOnLine(content, p + RatingWordAt(content, p))
             IN  parseInt(SubSeq(content, d, RunEnd(content, d, Range(Digits)) - 1))

\* '#bug'
ContentBug == <<"#","b","u","g">>
\* '#bug\nRating: 3'
ContentBugLow == <<"#","b","u","g","\n","R","a","t","i","n","g",":"," ","3">>
\* 'refactor'
ContentRefactor == <<"r","e","f","a","c","t","o","r">>
\* '#bug rating 0'
ContentBugZero == <<"#","b","u","g"," ","r","a","t","i","n","g"," ","0">>
\* 'debug\nRATE 9'
ContentDebugHigh == <<"d","e","b","u","g","\n","R","A","T","E"," ","9">>

\* The contents of the sample learning files.
SampleContents ==
    {ContentBug, ContentBugLow, ContentRefactor, ContentBugZero, ContentDebugHigh}

\* extractKeywords and the rating pattern on the sample contents, computed
\* once.
KeywordsOf == [c \in SampleContents |-> extractKeywords(c)]
RatingOf == [c \in SampleContents |-> extractRating(c)]

\* loadLearnings, given the files of the two category trees whose mtime falls
\* in the week, in enumeration order: a file whose read throws is skipped,
\* the others become Learnings, sorted by date.  A Learning's path is that of
\* its file, a date is the day number of its YYYY-MM-DD string.
loadLearnings(files) ==
    LET read == SelectSeq(files, LAMBDA f : f.readable)
        learnings == [i \in DOMAIN read |->
                        [path    |-> read[i].path,
                         date    |-> read[i].date,
                         content |-> read[i].content,
                         rating  |-> RatingOf[read[i].content]]]
    IN  StableSortAsc(learnings, [i \in DOMAIN learnings |-> learnings[i].date])

\* `l.rating` as a condition: undefined and 0 are both falsy.
Truthy(rating) == rating # NoRating /\ rating # 0

\* avgRating.toFixed(1) of sum / count, in tenths.
toFixed1(sum, count) == (20 * sum + count) \div (2 * count)

LowRatingInsight(avg10) ==
    <<"Repeated low ratings (avg {avg}/10) suggest this area needs improvement", avg10>>
BugInsight ==
    <<"Pattern of similar bugs - consider preventive measures or improved testing", 0>>
RefactorInsight ==
    <<"Technical debt accumulation - schedule dedicated refactoring time", 0>>
GenericInsight(n) ==
    <<"Recurring theme requiring attention - {n} instances this week", n>>

\* The low-rating rule of generateInsight: avgRating && avgRating < 5, where
\* avgRating is the sum over the count of the learnings with a truthy rating
\* (NaN, falsy, when there is none).
LowRatingRule(theme, learnings) ==
    LET rated == SelectSeq(learnings, LAMBDA l : Truthy(l.rating))
        sum == SumSeq([i \in DOMAIN rated |-> rated[i].rating])
    IN  Len(rated) > 0 /\ sum # 0 /\ sum < 5 * Len(rated)

BugRule(theme) ==
    \/ Includes(theme, <<"b","u","g">>)
    \/ Includes(theme, <<"f","i","x">>)
    \/ Includes(theme, <<"e","r","r","o","r">>)

RefactorRule(theme) ==
    \/ Includes(theme, <<"r","e","f","a","c","t","o","r">>)
    \/ Includes(theme, <<"o","p","t","i","m","i","z","e">>)

\* generateInsight: the first rule that applies.
generateInsight(theme, learnings) ==
    LET rated == SelectSeq(learnings, LAMBDA l : Truthy(l.rating))
        sum == SumSeq([i \in DOMAIN rated |-> rated[i].rating])
    IN  IF LowRatingRule(theme, learnings)
        THEN LowRatingInsight(toFixed1(sum, Len(rated)))
        ELSE IF BugRule(theme) THEN BugInsight
        ELSE IF RefactorRule(theme) THEN RefactorInsight
        ELSE GenericInsight(Len(learnings))

\* theme.replace(/^#/, '')
StripHash(theme) == IF theme # <<>> /\ Head(theme) = "#" THEN Tail(theme) ELSE theme

\* The keys of the Map `grouped`, in insertion order: every keyword, at its
\* first encounter over the learnings in order.
GroupedKeys(learnings) ==
    Dedup(Concat([i \in DOMAIN learnings |-> KeywordsOf[learnings[i].content]]))

\* grouped.get(keyword): the learnings pushed under the keyword, in order
\* (extractKeywords returns a keyword once, so a learning is pushed once).
GroupedItems(learnings, keyword) ==
    SelectSeq(learnings, LAMBDA l : keyword \in Range(KeywordsOf[l.content]))

\* Array.from(new Set(items.map(l => l.path))).map(path => items.find(...))
UniqueLearnings(items) ==
    LET paths == Dedup([i \in DOMAIN items |-> items[i].path])
    IN  [i \in DOMAIN paths |->
            items[CHOOSE j \in DOMAIN items :
                    /\ items[j].path = paths[i]
                    /\ \A k \in 1..(j - 1) : items[k].path # paths[i]]]

\* identifyPatterns with the threshold of both tests as a parameter.
PatternsAtLeast(learnings, min) ==
    LET keys == GroupedKeys(learnings)
        kept == SelectSeq(keys, LAMBDA k :
                    /\ Len(GroupedItems(learnings, k)) >= min
                    /\ Len(UniqueLearnings(GroupedItems(learnings, k))) >= min)
        patterns == [i \in DOMAIN kept |->
                       LET uniqueLearnings == UniqueLearnings(GroupedItems(learnings, kept[i]))
                       IN  [theme       |-> StripHash(kept[i]),
                            occurrences |-> Len(uniqueLearnings),
                            learnings   |-> uniqueLearnings,
                            insight     |-> generateInsight(kept[i], uniqueLearnings)]]
    IN  \* patterns.sort((a, b) => b.occurrences - a.occurrences)
        StableSortAsc(patterns, [i \in DOMAIN patterns |-> 0 - patterns[i].occurrences])

\* identifyPatterns keeping the keywords of 2 or more learnings.
identifyPatterns_TwoSuffice(learnings) == PatternsAtLeast(learnings, 2)

\* identifyPatterns with its result in the opposite order.
identifyPatterns_Reversed(learnings) ==
    [i \in DOMAIN PatternsAtLeast(learnings, 3) |->
        PatternsAtLeast(learnings, 3)[Len(PatternsAtLeast(learnings, 3)) + 1 - i]]

\* identifyPatterns: one pattern per keyword of 3 or more learnings.
identifyPatterns(learnings) == PatternsAtLeast(learnings, 3)

\* synthesize (weekStart and weekEnd are passed through and left out).
synthesize(learnings) ==
    LET patterns == identifyPatterns(learnings)
    IN  [totalLearnings |-> Len(learnings),
         patterns       |-> patterns,
         topInsights    |-> [i \in 1..(IF Len(patterns) < 5 THEN Len(patterns) ELSE 5) |->
                                patterns[i].insight],
         lowRatings     |-> SelectSeq(learnings, LAMBDA l : Truthy(l.rating) /\ l.rating <= 3)]

-----------------------------------------------------------------------------
(* The synthesis run                                                       *)

\* The largest number of learning files of the week.
MaxFiles == 5

\* The learning files a week's corpus is drawn from: content, date (a day
\* number) and whether readFileSync succeeds.
SampleFiles ==
    { [content |-> ContentBug,       date |-> 1, readable |-> TRUE],
      [content |-> ContentBugLow,    date |-> 2, readable |-> TRUE],
      [content |-> ContentRefactor,  date |-> 1, readable |-> TRUE],
      [content |-> ContentBugZero,   date |-> 2, readable |-> TRUE],
      [content |-> ContentDebugHigh, date |-> 3, readable |-> TRUE],
      [content |-> ContentBug,       date |-> 1, readable |-> FALSE] }

EmptyResult ==
    [totalLearnings |-> 0, patterns |-> <<>>, topInsights |-> <<>>, lowRatings |-> <<>>]

SynthIdle ==
    /\ sFiles = <<>>
    /\ sPc = "idle"
    /\ sLearnings = <<>>
    /\ sResult = EmptyResult

\* The user (or a hook) writes one more learning file of the week.
AddLearningFile ==
    /\ sPc = "idle"
    /\ Len(sFiles) < MaxFiles
    /\ \E s \in SampleFiles :
         sFiles' = Append(sFiles, [path     |-> Len(sFiles) + 1,
                                   content  |-> s.content,
                                   date     |-> s.date,
                                   readable |-> s.readable])
    /\ UNCHANGED <<sPc, sLearnings, sResult, searchVars, dbVars, stateVars, cliVars, raceVars, metaVars, reportVars, loaderVars>>

\* main, to the end of loadLearnings: with no learnings it exits.
LoadLearnings ==
    /\ sPc = "idle"
    /\ sLearnings' = loadLearnings(sFiles)
    /\ sPc' = IF sLearnings' = <<>> THEN "exit" ELSE "loaded"
    /\ UNCHANGED <<sFiles, sResult, searchVars, dbVars, stateVars, cliVars, raceVars, metaVars, reportVars, loaderVars>>

\* main, the call of synthesize.
Synthesize ==
    /\ sPc = "loaded"
    /\ sResult' = synthesize(sLearnings)
    /\ sPc' = "done"
    /\ UNCHANGED <<sFiles, sLearnings, searchVars, dbVars, stateVars, cliVars, raceVars, metaVars, reportVars, loaderVars>>

-----------------------------------------------------------------------------
(* MemorySearch.ts                                                         *)

CONTEXT_LINES == 3

\* content.split(sep), sep one character.
RECURSIVE Split(_, _)
Split(content, sep) ==
    IF \A i \in DOMAIN content : content[i] # sep THEN <<content>>
    ELSE LET i == CHOOSE j \in DOMAIN content :
                     content[j] = sep /\ \A k \in 1..(j - 1) : content[k] # sep
         IN  <<SubSeq(content, 1, i - 1)>> \o Split(SubSeq(content, i + 1, Len(content)), sep)

\* Whether the n characters of s from position i (1-based) are digits.
DigitsAt(s, i, n) == i >= 1 /\ i + n - 1 <= Len(s) /\ \A k \in i..(i + n - 1) : IsDigit(s[k])

\* The leftmost position of a set of positions; 0 when it is empty.
Leftmost(positions) ==
    IF positions = {} THEN 0 ELSE CHOOSE i \in positions : \A j \in positions : i <= j

\* filePath.match(/WORK\/(\d{8})-\d{6}_/): the position of the 8 digits.
WorkMatch(filePath) ==
    Leftmost({i \in 1..Len(filePath) :
                /\ i > 5 /\ SubSeq(filePath, i - 5, i - 1) = <<"W","O","R","K","/">>
                /\ DigitsAt(filePath, i, 8)
                /\ i + 15 <= Len(filePath)
                /\ filePath[i + 8] = "-"
                /\ DigitsAt(filePath, i + 9, 6)
                /\ filePath[i + 15] = "_"})

\* filePath.match(/(\d{4}-\d{2}-\d{2})[-_]/): the position of the date.
LearningMatch(filePath) ==
    Leftmost({i \in 1..Len(filePath) :
                /\ i + 10 <= Len(filePath)
                /\ DigitsAt(filePath, i, 4) /\ filePath[i + 4] = "-"
                /\ DigitsAt(filePath, i + 5, 2) /\ filePath[i + 7] = "-"
                /\ DigitsAt(filePath, i + 8, 2)
                /\ filePath[i + 10] \in {"-", "_"}})

\* filePath.match(/(\d{4}-\d{2})\//): the position of the year.
YearMonthMatch(filePath) ==
    Leftmost({i \in 1..Len(filePath) :
                /\ i + 7 <= Len(filePath)
                /\ DigitsAt(filePath, i, 4) /\ filePath[i + 4] = "-"
                /\ DigitsAt(filePath, i + 5, 2)
                /\ filePath[i + 7] = "/"})

\* A day count that grows with the calendar date (month 1..12, day 1..31);
\* dates are only compared.
DayNumber(year, month, day) == (year * 12 + (month - 1)) * 31 + day

\* new Date("YYYY-MM-DD"): midnight UTC of the date, in hours.
DateFromISO(s) ==
    24 * DayNumber(parseInt(SubSeq(s, 1, 4)), parseInt(SubSeq(s, 6, 7)), parseInt(SubSeq(s, 9, 10)))

\* new Date(year, monthIndex, day): midnight local time of the date, in hours,
\* for a process tz hours east of UTC.
DateLocal(year, monthIndex, day, tz) == 24 * DayNumber(year, monthIndex + 1, day) - tz

\* The Date value null of extractDate.
NullDate == -1

\* extractDate, for a process tz hours east of UTC.
extractDate(filePath, tz) ==
    IF WorkMatch(filePath) > 0
    THEN LET dateStr == SubSeq(filePath, WorkMatch(filePath), WorkMatch(filePath) + 7)
         IN  DateLocal(parseInt(SubSeq(dateStr, 1, 4)),
                       parseInt(SubSeq(dateStr, 5, 6)) - 1,
                       parseInt(SubSeq(dateStr, 7, 8)), tz)
    ELSE IF LearningMatch(filePath) > 0
    THEN DateFromISO(SubSeq(filePath, LearningMatch(filePath), LearningMatch(filePath) + 9))
    ELSE IF YearMonthMatch(filePath) > 0
    THEN DateFromISO(SubSeq(filePath, YearMonthMatch(filePath), YearMonthMatch(filePath) + 6)
                     \o <<"-","0","1">>)
    ELSE NullDate

\* 'WORK/20260129-150618_x/summary.md'
PathWorkDated == <<"W","O","R","K","/","2","0","2","6","0","1","2","9","-","1","5","0","6","1","8","_","x","/","s","u","m","m","a","r","y",".","m","d">>
\* 'LEARNING/ALGORITHM/2026-01/2026-01-29_a.md'
PathAlgoDated == <<"L","E","A","R","N","I","N","G","/","A","L","G","O","R","I","T","H","M","/","2","0","2","6","-","0","1","/","2","0","2","6","-","0","1","-","2","9","_","a",".","m","d">>
\* 'LEARNING/SYSTEM/2026-01/note.md'
PathSysMonth == <<"L","E","A","R","N","I","N","G","/","S","Y","S","T","E","M","/","2","0","2","6","-","0","1","/","n","o","t","e",".","m","d">>
\* 'LEARNING/SYSTEM/misc/note.md'
PathSysUndated == <<"L","E","A","R","N","I","N","G","/","S","Y","S","T","E","M","/","m","i","s","c","/","n","o","t","e",".","m","d">>

\* The paths, relative to MEMORY, at which the model places files.
SamplePaths == {PathWorkDated, PathAlgoDated, PathSysMonth, PathSysUndated}

\* The offsets from UTC, in hours, of the running process.
Timezones == {0 - 8, 0, 9}

\* extractDate on the sample paths, computed once.
DateOf == [p \in SamplePaths |-> [tz \in Timezones |-> extractDate(p, tz)]]

\* RegExp.prototype.exec of the pattern (the literal query, flags g and i) on
\* a line, from lastIndex (0-based): the index of the leftmost match at or
\* after lastIndex; -1 when there is none.
ExecIndex(line, query, lastIndex) ==
    LET hits == {i \in lastIndex..Len(line) :
                    OccursAt(toLowerCase(line), toLowerCase(query), i + 1)}
    IN  IF hits = {} THEN 0 - 1 ELSE CHOOSE i \in hits : \A j \in hits : i <= j

\* regexPattern.test(line) with every call starting at index 0.
RegExpTest_Stateless(line, query, lastIndex) ==
    [found |-> ExecIndex(line, query, 0) >= 0, lastIndex |-> 0]

\* regexPattern.test(line): a global pattern searches from its lastIndex and
\* leaves it after the match, or at 0 when there is none.
RegExpTest(line, query, lastIndex) ==
    LET i == ExecIndex(line, query, lastIndex)
    IN  [found |-> i >= 0, lastIndex |-> IF i >= 0 THEN i + Len(query) ELSE 0]

\* (line.match(regexPattern) || []).length: the matches of the whole line,
\* left to right without overlap, counted from index `from`.
RECURSIVE MatchCount(_, _, _)
MatchCount(line, query, from) ==
    LET i == ExecIndex(line, query, from)
    IN  IF i < 0 THEN 0 ELSE 1 + MatchCount(line, query, i + Len(query))

Min(a, b) == IF a <= b THEN a ELSE b
Max(a, b) == IF a >= b THEN a ELSE b

\* The loop of searchFile from line i (1-based), the pattern's lastIndex
\* threaded through the calls of test.
RECURSIVE SearchLines(_, _, _, _)
SearchLines(lines, query, i, lastIndex) ==
    IF i > Len(lines) THEN [matches |-> <<>>, lastIndex |-> lastIndex]
    ELSE LET t == RegExpTest(lines[i], query, lastIndex)
             rest == SearchLines(lines, query, i + 1, t.lastIndex)
             context == [lineNumber |-> i,
                         before     |-> SubSeq(lines, Max(1, i - CONTEXT_LINES), i - 1),
                         matchLine  |-> lines[i],
                         after      |-> SubSeq(lines, i + 1, Min(Len(lines), i + CONTEXT_LINES))]
         IN  IF t.found
             THEN [matches |-> <<context>> \o rest.matches, lastIndex |-> rest.lastIndex]
             ELSE rest

\* searchFile: a file whose read throws gives no matches.
searchFile(file, query, lastIndex) ==
    IF ~file.readable THEN [matches |-> <<>>, lastIndex |-> lastIndex]
    ELSE SearchLines(Split(file.content, "\n"), query, 1, lastIndex)

\* The type getFilesToSearch gives a file: the tree it was found in.
TypeOf(path) ==
    IF SubSeq(path, 1, 5) = <<"W","O","R","K","/">> THEN "WORK"
    ELSE IF SubSeq(path, 1, 19) = <<"L","E","A","R","N","I","N","G","/","A","L","G","O","R","I","T","H","M","/">>
         THEN "ALGORITHM"
    ELSE "SYSTEM"

\* The date filter also skipping the files with no date.
ExcludedBySince_NullExcluded(filePath, since, tz) ==
    /\ since # <<>>
    /\ \/ DateOf[filePath][tz] = NullDate
       \/ DateOf[filePath][tz] < DateFromISO(since)

\* The date filter of search: the file is skipped.
ExcludedBySince(filePath, since, tz) ==
    /\ since # <<>>
    /\ DateOf[filePath][tz] # NullDate
    /\ DateOf[filePath][tz] < DateFromISO(since)

\* The loop of search over the files, from file k; the pattern is one object,
\* so its lastIndex passes from file to file, and the score's match() call
\* resets it.
RECURSIVE SearchFiles(_, _, _, _, _, _)
SearchFiles(files, query, since, tz, k, lastIndex) ==
    IF k > Len(files) THEN <<>>
    ELSE IF ExcludedBySince(files[k].path, since, tz)
         THEN SearchFiles(files, query, since, tz, k + 1, lastIndex)
    ELSE LET found == searchFile(files[k], query, lastIndex)
             scores == [j \in DOMAIN found.matches |->
                          MatchCount(found.matches[j].matchLine, query, 0)]
         IN  IF found.matches # <<>>
             THEN << [filePath  |-> files[k].path,
                      type      |-> TypeOf(files[k].path),
                      timestamp |-> DateOf[files[k].path][tz],
                      score     |-> SumSeq(scores),
                      matches   |-> found.matches] >>
                  \o SearchFiles(files, query, since, tz, k + 1, 0)
             ELSE SearchFiles(files, query, since, tz, k + 1, found.lastIndex)

\* search with the results of equal score in the reverse of discovery order.
search_TiesReversed(files, query, since, tz) ==
    LET results == SearchFiles(files, query, since, tz, 1, 0)
    IN  StableSortAsc(results,
                      [i \in DOMAIN results |-> 0 - (results[i].score * (Len(results) + 1) + i)])

\* search, given the files of getFilesToSearch in discovery order.
search(files, query, since, tz) ==
    LET results == SearchFiles(files, query, since, tz, 1, 0)
    IN  StableSortAsc(results, [i \in DOMAIN results |-> 0 - results[i].score])

-----------------------------------------------------------------------------
(* The linear search                                                       *)

\* 'ab AB\nab'
TextTwiceThenOnce == <<"a","b"," ","A","B","\n","a","b">>
\* 'ab\nab AB'
TextOnceThenTwice == <<"a","b","\n","a","b"," ","A","B">>
\* 'ab AB\nba\nab'
TextApart == <<"a","b"," ","A","B","\n","b","a","\n","a","b">>
\* 'ba'
TextNoMatch == <<"b","a">>

\* The contents the model gives a file.
SampleTexts == {TextTwiceThenOnce, TextOnceThenTwice, TextApart, TextNoMatch}

\* The query of every search: 'ab'.
QueryAb == <<"a","b">>

\* '2026-01-29'
Since0129 == <<"2","0","2","6","-","0","1","-","2","9">>
\* '2026-02-01'
Since0201 == <<"2","0","2","6","-","0","2","-","0","1">>

\* The values of --since: none, or a date.
SampleSince == {<<>>, Since0129, Since0201}

\* The values of --type: none, or a type.
SampleTypes == {"", "WORK", "ALGORITHM", "SYSTEM"}

AbsentFile == [exists |-> FALSE, readable |-> FALSE, content |-> <<>>]

NoSearch == [query |-> <<>>, type |-> "", since |-> <<>>, files |-> <<>>, results |-> <<>>]

SearchIdle ==
    /\ mDisk = [p \in SamplePaths |-> AbsentFile]
    /\ mTz = 0
    /\ mOut = NoSearch

\* Before the tool runs, a file is written at a path (created or replaced).
WriteSearchFile ==
    /\ mOut = NoSearch
    /\ \E p \in SamplePaths : \E text \in SampleTexts :
         mDisk' = [mDisk EXCEPT ![p] = [exists |-> TRUE, readable |-> TRUE, content |-> text]]
    /\ UNCHANGED <<mTz, mOut, synthVars, dbVars, stateVars, cliVars, raceVars, metaVars, reportVars, loaderVars>>

\* Before the tool runs, a file loses its read permission (its content can no
\* longer be observed and is left out).
ProtectSearchFile ==
    /\ mOut = NoSearch
    /\ \E p \in SamplePaths :
         /\ mDisk[p].exists
         /\ mDisk[p].readable
         /\ mDisk' = [mDisk EXCEPT ![p] = [exists |-> TRUE, readable |-> FALSE, content |-> <<>>]]
    /\ UNCHANGED <<mTz, mOut, synthVars, dbVars, stateVars, cliVars, raceVars, metaVars, reportVars, loaderVars>>

TypeRank(type) == CASE type = "WORK" -> 1 [] type = "ALGORITHM" -> 2 [] OTHER -> 3

\* The orders in which getFilesToSearch can return the files of the disk that
\* pass the type filter: WORK, then ALGORITHM, then SYSTEM, the files of one
\* tree in the order of the directory scan, which is any.
DiscoveryOrders(disk, typeFilter) ==
    LET found == {p \in SamplePaths :
                    disk[p].exists /\ (typeFilter = "" \/ TypeOf(p) = typeFilter)}
    IN  {order \in [1..Cardinality(found) -> found] :
            /\ \A i, j \in DOMAIN order : i # j => order[i] # order[j]
            /\ \A i, j \in DOMAIN order :
                 i < j => TypeRank(TypeOf(order[i])) <= TypeRank(TypeOf(order[j]))}

\* getFilesToSearch, for one order of discovery.
getFilesToSearch(disk, order) ==
    [i \in DOMAIN order |->
        [path |-> order[i], readable |-> disk[order[i]].readable, content |-> disk[order[i]].content]]

\* main: one run of the search tool with a query, --type and --since.
Search ==
    /\ mOut = NoSearch
    /\ \E typeFilter \in SampleTypes : \E since \in SampleSince :
       \E order \in DiscoveryOrders(mDisk, typeFilter) :
         mOut' = [query   |-> QueryAb,
                  type    |-> typeFilter,
                  since   |-> since,
                  files   |-> order,
                  results |-> search(getFilesToSearch(mDisk, order), QueryAb, since, mTz)]
    /\ UNCHANGED <<mDisk, mTz, synthVars, dbVars, stateVars, cliVars, raceVars, metaVars, reportVars, loaderVars>>

-----------------------------------------------------------------------------
(* MemoryDatabase.ts: the metadata of a file                               *)

\* '/h/.claude'
PAI_HOME == <<"/","h","/",".","c","l","a","u","d","e">>
MEMORY_DIR == PAI_HOME \o <<"/","M","E","M","O","R","Y">>

\* The character class \w.
WordChars == Range(UpperCase) \cup Range(LowerCase) \cup Range(Digits) \cup {"_"}

\* The characters of \s that the samples use, and the line terminators that
\* `.` does not match.
Whitespace == {" ", "\t", "\n", "\r"}
LineTerminators == {"\n", "\r"}

\* content.match(/#[a-zA-Z0-9_]+/g) || [], scanning from position i.
RECURSIVE MatchTags(_, _)
MatchTags(content, i) ==
    IF i > Len(content) THEN <<>>
    ELSE IF content[i] = "#" /\ RunEnd(content, i + 1, WordChars) > i + 1
         THEN LET e == RunEnd(content, i + 1, WordChars)
              IN  <<SubSeq(content, i, e - 1)>> \o MatchTags(content, e)
         ELSE MatchTags(content, i + 1)

\* Array.prototype.join.
RECURSIVE Join(_, _)
Join(ss, sep) ==
    IF ss = <<>> THEN <<>>
    ELSE IF Len(ss) = 1 THEN ss[1]
    ELSE ss[1] \o sep \o Join(Tail(ss), sep)

\* The position of the first occurrence of p in s; 0 when there is none.
IndexOf(s, p) == Leftmost({i \in 1..(Len(s) + 1) : OccursAt(s, p, i)})

\* s.replace(p, r) for a string p: the first occurrence is replaced.
ReplaceAt(s, p, r, i) ==
    IF i = 0 THEN s ELSE SubSeq(s, 1, i - 1) \o r \o SubSeq(s, i + Len(p), Len(s))

ReplaceFirst(s, p, r) == ReplaceAt(s, p, r, IndexOf(s, p))

\* filePath.match(/(?:LEARNING|WORK).*?\/([^\/]+)\.\w+$/): the captured base
\* name of the last path segment; <<>> when there is no match.  The segment
\* after the last slash must be name "." extension with a \w+ extension, and
\* LEARNING or WORK must occur before that slash.
FileNameMatch(filePath) ==
    LET slashes == {i \in DOMAIN filePath : filePath[i] = "/"}
        s == CHOOSE i \in slashes : \A j \in slashes : j <= i
        dots == {i \in (s + 1)..Len(filePath) : filePath[i] = "."}
        d == CHOOSE i \in dots : \A j \in dots : j <= i
        keyword == \E p \in 1..s :
                     \/ OccursAt(filePath, <<"L","E","A","R","N","I","N","G">>, p) /\ p + 8 <= s
                     \/ OccursAt(filePath, <<"W","O","R","K">>, p) /\ p + 4 <= s
    IN  IF slashes = {} THEN <<>>
        ELSE IF dots = {} THEN <<>>
        ELSE IF /\ keyword
                /\ d > s + 1
                /\ d < Len(filePath)
                /\ \A i \in (d + 1)..Len(filePath) : filePath[i] \in WordChars
             THEN SubSeq(filePath, s + 1, d - 1)
             ELSE <<>>

\* name.replace(/^\d{4}-\d{2}-\d{2}[-_]/, "").
RemoveDatePrefix(name) ==
    IF /\ Len(name) >= 11
       /\ DigitsAt(name, 1, 4) /\ name[5] = "-"
       /\ DigitsAt(name, 6, 2) /\ name[8] = "-"
       /\ DigitsAt(name, 9, 2) /\ name[11] \in {"-", "_"}
    THEN SubSeq(name, 12, Len(name))
    ELSE name

\* name.replace(/[-_]/g, " ").
ReplaceSeparators(name) == [i \in DOMAIN name |-> IF name[i] \in {"-", "_"} THEN " " ELSE name[i]]

\* The capture of /^#\s+(.+)$/m when the match starts at position p (a line
\* start holding "#"): \s+ takes the longest run of whitespace that leaves
\* (.+) a character that is no line terminator; <<>> when there is no match.
HeadingAt(content, p) ==
    LET w == RunEnd(content, p + 1, Whitespace)
        starts == {q \in (p + 2)..w : q <= Len(content) /\ content[q] \notin LineTerminators}
        q == CHOOSE r \in starts : \A t \in starts : t <= r
    IN  IF starts = {} THEN <<>>
        ELSE SubSeq(content, q, RunEnd(content, q, Range(content) \ LineTerminators) - 1)

\* content.match(/^#\s+(.+)$/m): the capture of the leftmost match; <<>> when
\* there is none.
TopicMatch(content) ==
    LET lineStarts == {p \in DOMAIN content :
                         /\ p = 1 \/ content[p - 1] \in LineTerminators
                         /\ content[p] = "#"
                         /\ HeadingAt(content, p) # <<>>}
    IN  IF lineStarts = {} THEN <<>> ELSE HeadingAt(content, Leftmost(lineStarts))

\* The importance that extractMetadata derives: from a truthy rating by the
\* thresholds 8, 6 and 4, and 3 without one.
ImportanceOf(rating) ==
    IF Truthy(rating)
    THEN IF rating >= 8 THEN 5
         ELSE IF rating >= 6 THEN 4
         ELSE IF rating >= 4 THEN 3
         ELSE 2
    ELSE 3

\* The stability that extractMetadata derives from the path.
StabilityOf(filePath) ==
    IF Includes(filePath, <<"g","o","a","l","s">>)
       \/ Includes(filePath, <<"u","s","e","r","-","c","o","n","t","e","x","t">>)
    THEN 5
    ELSE IF Includes(filePath, <<"L","E","A","R","N","I","N","G","/","A","L","G","O","R","I","T","H","M">>)
    THEN 4
    ELSE IF Includes(filePath, <<"W","O","R","K">>) THEN 2
    ELSE 3

\* extractMetadata; the rating null is NoRating.
\* The metadata, given the rating and the two matches for the topic: the
\* heading wins over the file name.
MetadataOf(content, filePath, rating, fileNameMatch, topicMatch) ==
    [topic      |-> IF topicMatch # <<>> THEN topicMatch
                    ELSE IF fileNameMatch # <<>>
                    THEN ReplaceSeparators(RemoveDatePrefix(fileNameMatch))
                    ELSE <<>>,
     rating     |-> rating,
     tags       |-> Join(MatchTags(content, 1), <<" ">>),
     importance |-> ImportanceOf(rating),
     stability  |-> StabilityOf(filePath)]

extractMetadata(content, filePath) ==
    MetadataOf(content, filePath, extractRating(content), FileNameMatch(filePath),
               TopicMatch(content))

\* The timestamp of a WORK path whose 8 digits are at position p.
WorkTimestamp(filePath, p) ==
    SubSeq(filePath, p, p + 3) \o <<"-">> \o SubSeq(filePath, p + 4, p + 5) \o <<"-">>
      \o SubSeq(filePath, p + 6, p + 7) \o <<" ">> \o SubSeq(filePath, p + 9, p + 10) \o <<":">>
      \o SubSeq(filePath, p + 11, p + 12) \o <<":">> \o SubSeq(filePath, p + 13, p + 14)

\* filePath.match(/(\d{4}-\d{2}-\d{2})/): the position of the date.
DateMatch(filePath) ==
    Leftmost({i \in 1..Len(filePath) :
                /\ DigitsAt(filePath, i, 4) /\ i + 9 <= Len(filePath)
                /\ filePath[i + 4] = "-" /\ DigitsAt(filePath, i + 5, 2)
                /\ filePath[i + 7] = "-" /\ DigitsAt(filePath, i + 8, 2)})

\* The timestamp, given the positions of the two matches.
TimestampAt(filePath, mtime, work, date) ==
    IF work > 0 THEN WorkTimestamp(filePath, work)
    ELSE IF date > 0
    THEN SubSeq(filePath, date, date + 9) \o <<" ","1","2",":","0","0",":","0","0">>
    ELSE mtime

\* extractTimestamp; mtime is the modification time of the file, formatted.
extractTimestamp(filePath, mtime) ==
    TimestampAt(filePath, mtime, WorkMatch(filePath), DateMatch(filePath))

-----------------------------------------------------------------------------
(* MemoryDatabase.ts: the memories table, its index and the sync           *)

\* The directory that syncAllMemories scans for a tree, below MEMORY_DIR.
TreeDir(tree) ==
    CASE tree = "WORK"      -> MEMORY_DIR \o <<"/","W","O","R","K">>
      [] tree = "ALGORITHM" -> MEMORY_DIR \o <<"/","L","E","A","R","N","I","N","G","/","A","L","G","O","R","I","T","H","M">>
      [] OTHER              -> MEMORY_DIR \o <<"/","L","E","A","R","N","I","N","G","/","S","Y","S","T","E","M">>

\* path.dirname of a relative path.
dirname(file) ==
    LET slashes == {i \in DOMAIN file : file[i] = "/"}
    IN  IF slashes = {} THEN <<".">>
        ELSE SubSeq(file, 1, (CHOOSE i \in slashes : \A j \in slashes : j <= i) - 1)

\* file.replace(/\//g, "_").replace(/\.md$/, "").
FlatName(file) ==
    LET flat == [i \in DOMAIN file |-> IF file[i] = "/" THEN "_" ELSE file[i]]
    IN  IF Len(flat) >= 3 /\ SubSeq(flat, Len(flat) - 2, Len(flat)) = <<".","m","d">>
        THEN SubSeq(flat, 1, Len(flat) - 3)
        ELSE flat

\* The id that syncAllMemories gives the file of a tree.
MemoryId(tree, file) ==
    CASE tree = "WORK"      -> <<"w","o","r","k","_">> \o dirname(file)
      [] tree = "ALGORITHM" -> <<"a","l","g","o","_">> \o FlatName(file)
      [] OTHER              -> <<"s","y","s","_">> \o FlatName(file)

\* The topic of a memory without one.
DefaultTopic(tree) ==
    CASE tree = "WORK"      -> <<"W","o","r","k"," ","S","e","s","s","i","o","n">>
      [] tree = "ALGORITHM" -> <<"A","l","g","o","r","i","t","h","m"," ","L","e","a","r","n","i","n","g">>
      [] OTHER              -> <<"S","y","s","t","e","m"," ","L","e","a","r","n","i","n","g">>

\* value || fallback, of numbers: 0 is falsy.
OrElse(value, fallback) == IF value # 0 THEN value ELSE fallback

\* The importance and the stability that syncAllMemories falls back to when
\* the metadata's are falsy.
FallbackImportance(tree) == IF tree = "WORK" THEN 3 ELSE 4
FallbackStability(tree) == IF tree = "WORK" THEN 2 ELSE 4

\* The Memory that syncAllMemories builds for a file of a tree from its
\* metadata; created_at is set by the store and is not part of a Memory.
MemoryFrom(tree, file, content, filePath, metadata, mtime) ==
    [id         |-> MemoryId(tree, file),
     timestamp  |-> extractTimestamp(filePath, mtime),
     type       |-> IF tree = "WORK" THEN "work" ELSE "learning",
     topic      |-> IF metadata.topic # <<>> THEN metadata.topic ELSE DefaultTopic(tree),
     content    |-> IF tree = "WORK" THEN SubSeq(content, 1, Min(Len(content), 5000))
                                     ELSE content,
     rating     |-> IF Truthy(metadata.rating) THEN metadata.rating ELSE NoRating,
     tags       |-> metadata.tags,
     file_path  |-> ReplaceFirst(filePath, PAI_HOME \o <<"/">>, <<>>),
     importance |-> OrElse(metadata.importance, FallbackImportance(tree)),
     stability  |-> OrElse(metadata.stability, FallbackStability(tree))]

\* The Memory of the file of a tree with a content.
MemoryAt(tree, file, content, filePath, mtime) ==
    MemoryFrom(tree, file, content, filePath, extractMetadata(content, filePath), mtime)

MemoryOfFile(tree, file, content, mtime) ==
    MemoryAt(tree, file, content, TreeDir(tree) \o <<"/">> \o file, mtime)

\* The tokens of a text for the index (the default tokenizer of FTS5): the
\* maximal runs of letters and digits, in lower case.
RECURSIVE Tokenize(_, _)
Tokenize(text, i) ==
    LET alnum == Range(UpperCase) \cup Range(LowerCase) \cup Range(Digits)
    IN  IF i > Len(text) THEN {}
        ELSE IF text[i] \in alnum
        THEN {toLowerCase(SubSeq(text, i, RunEnd(text, i, alnum) - 1))}
               \cup Tokenize(text, RunEnd(text, i, alnum))
        ELSE Tokenize(text, i + 1)

\* The tokens of the columns of memories_fts for a row.
ColumnTokens(memory) ==
    Tokenize(memory.id, 1) \cup Tokenize(memory.content, 1)
      \cup Tokenize(memory.topic, 1) \cup Tokenize(memory.tags, 1)

-----------------------------------------------------------------------------
(* Sample files of the database tool                                      *)

\* '20260129-150618_x/summary.md'
WorkSummary == <<"2","0","2","6","0","1","2","9","-","1","5","0","6","1","8","_","x","/","s","u","m","m","a","r","y",".","m","d">>
\* '20260129-150618_x/IDEAL.md'
WorkIdeal == <<"2","0","2","6","0","1","2","9","-","1","5","0","6","1","8","_","x","/","I","D","E","A","L",".","m","d">>
\* '2026-01/2026-01-30_a.md'
AlgoNote == <<"2","0","2","6","-","0","1","/","2","0","2","6","-","0","1","-","3","0","_","a",".","m","d">>

\* '2026-01/tip.md'
SysNote == <<"2","0","2","6","-","0","1","/","t","i","p",".","m","d">>

\* The files of the sample disk, each by its tree and its path within it.
DbFiles == { [tree |-> "WORK", file |-> WorkSummary],
             [tree |-> "WORK", file |-> WorkIdeal],
             [tree |-> "ALGORITHM", file |-> AlgoNote] }

\* '# Plan\nalpha #api\nRating: 9'
DocPlan == <<"#"," ","P","l","a","n","\n","a","l","p","h","a"," ","#","a","p","i","\n","R","a","t","i","n","g",":"," ","9">>
\* 'alpha beta'
DocNotes == <<"a","l","p","h","a"," ","b","e","t","a">>

DbContents == {DocPlan, DocNotes}

\* '2026-02-01 08:00:00'
MtimeSample == <<"2","0","2","6","-","0","2","-","0","1"," ","0","8",":","0","0",":","0","0">>

QueryAlpha == <<"a","l","p","h","a">>
QueryBeta == <<"b","e","t","a">>
DbQueries == {QueryAlpha, QueryBeta}

\* The limits of the sample searches; the command line passes none, which is
\* the default of 20.
DbLimits == {1, 20}

\* The ranks the engine can give a row; a lower rank is a better match.
RankValues == {1, 2}

\* The memories of the sample files and their tokens, computed once.
MemoryTable ==
    [f \in DbFiles |-> [c \in DbContents |-> MemoryOfFile(f.tree, f.file, c, MtimeSample)]]

TokenTable ==
    [m \in {MemoryTable[f][c] : f \in DbFiles, c \in DbContents} |-> ColumnTokens(m)]

\* The tokens of a row (a row of a sample file), from the table.
FtsTokens(memory) == TokenTable[memory]

-----------------------------------------------------------------------------
(* MemoryDatabase.ts: insert, sync and search                              *)

\* The database: the rows of memories in rowid order and, beside each row,
\* the tokens that memories_fts holds for its rowid.
EmptyDb == [memories |-> <<>>, memories_fts |-> <<>>]

\* The position of the row with an id; 0 when there is none.
RowOf(db, id) == Leftmost({i \in DOMAIN db.memories : db.memories[i].id = id})

\* A new row, which the insert trigger indexes with its tokens.
InsertRow(db, memory, tokens) ==
    [memories     |-> Append(db.memories, memory),
     memories_fts |-> Append(db.memories_fts, tokens)]

\* ON CONFLICT(id) DO UPDATE SET on row i: its nine columns are set.  The
\* update trigger then writes the index of the external-content table
\* without first removing the tokens of the old column values, which stay
\* indexed beside the new ones.
UpdateRow(db, memory, tokens, i) ==
    [memories     |-> [db.memories EXCEPT ![i] =
                          [@ EXCEPT !.timestamp  = memory.timestamp,
                                    !.type       = memory.type,
                                    !.topic      = memory.topic,
                                    !.content    = memory.content,
                                    !.rating     = memory.rating,
                                    !.tags       = memory.tags,
                                    !.file_path  = memory.file_path,
                                    !.importance = memory.importance,
                                    !.stability  = memory.stability]],
     memories_fts |-> [db.memories_fts EXCEPT ![i] = @ \cup tokens]]

Upsert(db, memory, tokens, i) ==
    IF i = 0 THEN InsertRow(db, memory, tokens) ELSE UpdateRow(db, memory, tokens, i)

\* INSERT ... ON CONFLICT(id) DO NOTHING.
KeepFirst(db, memory, tokens, i) ==
    IF i = 0 THEN InsertRow(db, memory, tokens) ELSE db

insertMemory_KeepFirst(db, memory) ==
    KeepFirst(db, memory, FtsTokens(memory), RowOf(db, memory.id))

\* insertMemory.
insertMemory(db, memory) == Upsert(db, memory, FtsTokens(memory), RowOf(db, memory.id))

\* The body of the loops of syncAllMemories for one file that was read and
\* the memory built from it, which is inserted.  A run holds the database,
\* the files visited with their ids, the memories inserted, and whether the
\* sync threw.
SyncMemory(run, f, memory) ==
    [db       |-> insertMemory(run.db, memory),
     visited  |-> Append(run.visited, [tree |-> f.tree, file |-> f.file, id |-> memory.id]),
     inserted |-> Append(run.inserted, memory),
     threw    |-> FALSE]

SyncFile(run, f) ==
    SyncMemory(run, f, MemoryTable[[tree |-> f.tree, file |-> f.file]][f.content])

\* The loops of syncAllMemories over the files in the order of discovery,
\* from file k on.  readFileSync of a file that cannot be read throws;
\* nothing catches it before main, so the sync ends there, with the rows
\* inserted until then stored.
RECURSIVE SyncFiles(_, _, _)
SyncFiles(run, files, k) ==
    IF k > Len(files) THEN run
    ELSE IF ~files[k].readable THEN [run EXCEPT !.threw = TRUE]
    ELSE SyncFiles(SyncFile(run, files[k]), files, k + 1)

\* syncAllMemories over the WORK, ALGORITHM and SYSTEM trees (the optional
\* vault directories do not exist).
syncAllMemories(db, files) ==
    SyncFiles([db |-> db, visited |-> <<>>, inserted |-> <<>>, threw |-> FALSE], files, 1)

\* The characters of the timestamps, in the order of their codes.
CharOrder == <<" ", "-">> \o Digits \o <<":">>

CharCode(c) == CHOOSE i \in DOMAIN CharOrder : CharOrder[i] = c

\* a < b for TEXT values under the BINARY collation.
TextLess(a, b) ==
    \E i \in 1..(Len(b)) :
        /\ \A k \in 1..(i - 1) : k <= Len(a) /\ a[k] = b[k]
        /\ \/ i = Len(a) + 1
           \/ i <= Len(a) /\ CharCode(a[i]) < CharCode(b[i])

\* ORDER BY rank, m.timestamp DESC, m.importance DESC.
OrderedBefore_TimestampFirst(db, rank, a, b) ==
    \/ rank[a] < rank[b]
    \/ /\ rank[a] = rank[b]
       /\ TextLess(db.memories[b].timestamp, db.memories[a].timestamp)
    \/ /\ rank[a] = rank[b]
       /\ db.memories[a].timestamp = db.memories[b].timestamp
       /\ db.memories[a].importance > db.memories[b].importance

\* ORDER BY rank, m.importance DESC, m.timestamp DESC: whether row a must
\* come before row b; rank is the rank the engine gives each row.
OrderedBefore(db, rank, a, b) ==
    \/ rank[a] < rank[b]
    \/ /\ rank[a] = rank[b]
       /\ db.memories[a].importance > db.memories[b].importance
    \/ /\ rank[a] = rank[b]
       /\ db.memories[a].importance = db.memories[b].importance
       /\ TextLess(db.memories[b].timestamp, db.memories[a].timestamp)

\* WHERE memories_fts MATCH query, for a query of bare words: the rows whose
\* index entry holds every word.
MatchingRows(db, query) ==
    {i \in DOMAIN db.memories : Tokenize(query, 1) \subseteq db.memories_fts[i]}

\* searchMemories: the results the statement can return, each a sequence of
\* rows with their rank.  Rows that tie on the three keys come in any order;
\* a negative limit is no limit.
searchMemories(db, query, limit, rank) ==
    LET matching == MatchingRows(db, query)
        n == IF limit < 0 THEN Cardinality(matching) ELSE Min(limit, Cardinality(matching))
        picks == {out \in [1..n -> matching] :
                    /\ \A i, j \in 1..n : i # j => out[i] # out[j]
                    /\ \A i, j \in 1..n : i < j => ~OrderedBefore(db, rank, out[j], out[i])
                    /\ \A m \in matching : \A i \in 1..n :
                         (\A j \in 1..n : out[j] # m) => ~OrderedBefore(db, rank, m, out[i])}
    IN  {[i \in 1..n |-> [row |-> db.memories[out[i]], rank |-> rank[out[i]]]] : out \in picks}

-----------------------------------------------------------------------------
(* The database tool run on the sample files                               *)

NoDbOut ==
    [cmd |-> "none", ok |-> TRUE, visited |-> <<>>, inserted |-> <<>>,
     query |-> <<>>, limit |-> 0, results |-> <<>>]

DbIdle ==
    /\ dDisk = [f \in DbFiles |-> AbsentFile]
    /\ dDb = EmptyDb
    /\ dOut = NoDbOut

\* A file is written at a path (created or replaced).
WriteDbFile ==
    /\ dOut.cmd # "search"
    /\ \E f \in DbFiles : \E text \in DbContents :
         dDisk' = [dDisk EXCEPT ![f] = [exists |-> TRUE, readable |-> TRUE, content |-> text]]
    /\ dOut' = NoDbOut
    /\ UNCHANGED <<dDb, synthVars, searchVars, stateVars, cliVars, raceVars, metaVars, reportVars, loaderVars>>

\* A file loses its read permission.
ProtectDbFile ==
    /\ dOut.cmd # "search"
    /\ \E f \in DbFiles :
         /\ dDisk[f].exists
         /\ dDisk[f].readable
         /\ dDisk' = [dDisk EXCEPT ![f] = [exists |-> TRUE, readable |-> FALSE, content |-> <<>>]]
    /\ dOut' = NoDbOut
    /\ UNCHANGED <<dDb, synthVars, searchVars, stateVars, cliVars, raceVars, metaVars, reportVars, loaderVars>>

\* A file is removed from disk.
RemoveDbFile ==
    /\ dOut.cmd # "search"
    /\ \E f \in DbFiles :
         /\ dDisk[f].exists
         /\ dDisk' = [dDisk EXCEPT ![f] = AbsentFile]
    /\ dOut' = NoDbOut
    /\ UNCHANGED <<dDb, synthVars, searchVars, stateVars, cliVars, raceVars, metaVars, reportVars, loaderVars>>

\* The orders in which the globs of syncAllMemories can yield the files of
\* the disk: the WORK tree, then ALGORITHM, then SYSTEM, the files of one tree
\* in any order.
GlobOrders(disk) ==
    LET found == {f \in DbFiles : disk[f].exists}
    IN  {order \in [1..Cardinality(found) -> found] :
            /\ \A i, j \in DOMAIN order : i # j => order[i] # order[j]
            /\ \A i, j \in DOMAIN order :
                 i < j => TypeRank(order[i].tree) <= TypeRank(order[j].tree)}

\* The files of the disk in an order of discovery, as the loops read them.
FilesIn(disk, order) ==
    [i \in DOMAIN order |->
        [tree |-> order[i].tree, file |-> order[i].file,
         readable |-> disk[order[i]].readable, content |-> disk[order[i]].content]]

\* main, the command sync.
SyncAllMemories ==
    /\ dOut.cmd # "search"
    /\ \E order \in GlobOrders(dDisk) :
       \E r \in {syncAllMemories(dDb, FilesIn(dDisk, order))} :
         /\ dDb' = r.db
         /\ dOut' = [cmd |-> "sync", ok |-> ~r.threw, visited |-> r.visited,
                     inserted |-> r.inserted, query |-> <<>>, limit |-> 0,
                     results |-> <<>>]
    /\ UNCHANGED <<dDisk, synthVars, searchVars, stateVars, cliVars, raceVars, metaVars, reportVars, loaderVars>>

\* main, the command search, and searchMemories with a limit.
SearchMemories ==
    /\ dOut.cmd # "search"
    /\ \E query \in DbQueries : \E limit \in DbLimits :
       \E rank \in [DOMAIN dDb.memories -> RankValues] :
       \E out \in searchMemories(dDb, query, limit, rank) :
         dOut' = [cmd |-> "search", ok |-> TRUE, visited |-> <<>>, inserted |-> <<>>,
                  query |-> query, limit |-> limit, results |-> out]
    /\ UNCHANGED <<dDisk, dDb, synthVars, searchVars, stateVars, cliVars, raceVars, metaVars, reportVars, loaderVars>>

NextDb == WriteDbFile \/ ProtectDbFile \/ RemoveDbFile \/ SyncAllMemories \/ SearchMemories

-----------------------------------------------------------------------------
(* The record of one file                                                  *)

\* The decimal digits of a natural number.
RECURSIVE DigitsOf(_)
DigitsOf(n) ==
    IF n < 10 THEN <<Digits[n + 1]>> ELSE DigitsOf(n \div 10) \o <<Digits[(n % 10) + 1]>>

\* 'alpha\nRating: <rating>'
RatedDoc(rating) == <<"a","l","p","h","a">> \o <<"\n">> \o <<"R","a","t","i","n","g",":"," ">> \o DigitsOf(rating)

\* The ratings of the sample contents.
MaxRating == 10

\* '2026-01/goals.md'
GoalsNote == <<"2","0","2","6","-","0","1","/","g","o","a","l","s",".","m","d">>

\* The files and contents a record is built from: a WORK summary, an
\* ALGORITHM and a SYSTEM learning, each also at a path that holds 'goals',
\* unrated or with a rating of 0..MaxRating.
MetaInputs ==
    {[tree |-> tree, file |-> file, content |-> content] :
        tree \in {"ALGORITHM", "SYSTEM"},
        file \in {SysNote, GoalsNote},
        content \in {DocNotes} \cup {RatedDoc(rating) : rating \in 0..MaxRating}}
    \cup
    {[tree |-> "WORK", file |-> WorkSummary, content |-> content] :
        content \in {DocNotes} \cup {RatedDoc(rating) : rating \in 0..MaxRating}}

NoMemory ==
    [id |-> <<>>, timestamp |-> <<>>, type |-> "none", topic |-> <<>>, content |-> <<>>,
     rating |-> NoRating, tags |-> <<>>, file_path |-> <<>>, importance |-> 0, stability |-> 0]

MetaIdle ==
    /\ eIn = [tree |-> "WORK", file |-> WorkSummary, content |-> DocNotes]
    /\ eOut = NoMemory

\* The body of a loop of syncAllMemories for the file: the Memory it inserts.
BuildMemory ==
    /\ eOut = NoMemory
    /\ eOut' = MemoryOfFile(eIn.tree, eIn.file, eIn.content, MtimeSample)
    /\ UNCHANGED <<eIn, synthVars, searchVars, dbVars, stateVars, cliVars, raceVars, reportVars, loaderVars>>

NextMeta == BuildMemory

-----------------------------------------------------------------------------
(* The JSON state documents: CurrentWorkManager.ts and updateMemoryIndex   *)

\* The text of a file is either what JSON.stringify rendered for a value, or
\* raw characters written by other means.
NoValue == [none |-> TRUE]
Rendered(value) == [rendered |-> TRUE, raw |-> <<>>, value |-> value]
RawText(chars) == [rendered |-> FALSE, raw |-> chars, value |-> NoValue]

NoFile == [exists |-> FALSE, text |-> RawText(<<>>)]
FileOf(text) == [exists |-> TRUE, text |-> text]

\* A JSON object is a record with the members it can have and the set `has`
\* of those it has; a member it lacks holds the empty value of its kind and
\* reads as undefined.
StateMembers == {"activeProjects", "lastSession", "openItems", "lastUpdated"}
NoSession == [date |-> 0, summary |-> "", nextSteps |-> <<>>]
EmptyStateObject ==
    [has |-> {}, activeProjects |-> <<>>, lastSession |-> NoSession,
     openItems |-> <<>>, lastUpdated |-> 0]

IndexMembers == {"weeks", "patterns"}
EmptyIndexObject == [has |-> {}, weeks |-> <<>>, patterns |-> <<>>]

\* JSON.stringify of a state object: a member that is undefined is left out.
StringifyState(state) ==
    Rendered([has            |-> state.has,
              activeProjects |-> IF "activeProjects" \in state.has THEN state.activeProjects ELSE <<>>,
              lastSession    |-> IF "lastSession" \in state.has THEN state.lastSession ELSE NoSession,
              openItems      |-> IF "openItems" \in state.has THEN state.openItems ELSE <<>>,
              lastUpdated    |-> IF "lastUpdated" \in state.has THEN state.lastUpdated ELSE 0])

\* JSON.stringify of an index object.
StringifyIndex(index) ==
    Rendered([has      |-> index.has,
              weeks    |-> IF "weeks" \in index.has THEN index.weeks ELSE <<>>,
              patterns |-> IF "patterns" \in index.has THEN index.patterns ELSE <<>>])

\* The raw text without surrounding white space.
Trim(chars) ==
    LET inner == {i \in DOMAIN chars : chars[i] \notin Whitespace}
    IN  IF inner = {} THEN <<>>
        ELSE SubSeq(chars, CHOOSE i \in inner : \A j \in inner : i <= j,
                           CHOOSE i \in inner : \A j \in inner : j <= i)

\* JSON.parse: a rendered text parses to the value it renders; of raw texts,
\* "{}" parses to the object without members, and a text that is empty or
\* ends inside a value is a SyntaxError.  `empty` is the object without
\* members of the document's kind.
JSONparse(text, empty) ==
    IF text.rendered THEN [ok |-> TRUE, value |-> text.value]
    ELSE IF Trim(text.raw) = <<"{", "}">> THEN [ok |-> TRUE, value |-> empty]
    ELSE [ok |-> FALSE, value |-> empty]

\* '{}'
RawEmptyObject == <<"{","}">>
\* '{"openItems": ['
RawTruncated == <<"{","\"","o","p","e","n","I","t","e","m","s","\"",":"," ","[">>

\* getDefaultState, on day today.
getDefaultState(today) ==
    [has            |-> StateMembers,
     activeProjects |-> <<>>,
     lastSession    |-> [date |-> today, summary |-> "No previous session", nextSteps |-> <<>>],
     openItems      |-> <<>>,
     lastUpdated    |-> today]

\* getCurrentWorkState with the parse error passed on to the caller; `threw`
\* tells it.
getCurrentWorkState_Rethrow(file, today) ==
    IF ~file.exists THEN [state |-> getDefaultState(today), found |-> "missing", threw |-> FALSE]
    ELSE IF JSONparse(file.text, EmptyStateObject).ok
    THEN [state |-> JSONparse(file.text, EmptyStateObject).value, found |-> "parsed", threw |-> FALSE]
    ELSE [state |-> getDefaultState(today), found |-> "corrupt", threw |-> TRUE]

\* getCurrentWorkState: the state it returns and what it found; the catch
\* turns every error into the default state.
getCurrentWorkState(file, today) ==
    IF ~file.exists THEN [state |-> getDefaultState(today), found |-> "missing", threw |-> FALSE]
    ELSE IF JSONparse(file.text, EmptyStateObject).ok
    THEN [state |-> JSONparse(file.text, EmptyStateObject).value, found |-> "parsed", threw |-> FALSE]
    ELSE [state |-> getDefaultState(today), found |-> "corrupt", threw |-> FALSE]

\* writeFileSync keeping the content of a file that already exists.
writeFileSync_KeepOlder(file, content) == IF file.exists THEN file ELSE FileOf(content)

\* writeFileSync(path, content): the content replaces whatever the file at
\* the path (the first argument here) holds.
writeFileSync(file, content) == FileOf(content)

\* saveCurrentWorkState: the file it writes (the STATE directory exists).
saveCurrentWorkState(state, today) ==
    FileOf(StringifyState([state EXCEPT !.lastUpdated = today,
                                        !.has = @ \cup {"lastUpdated"}]))

\* The outcome of an operation: the file it leaves, what the read found, and
\* whether it completed.
Completed(file, read) == [file |-> file, found |-> read.found, ok |-> TRUE]
Failed(file, read) == [file |-> file, found |-> read.found, ok |-> FALSE]

\* addOpenItem; priority "" is the argument left out.  push on a state
\* without openItems is a TypeError.
addOpenItem(file, description, priority, today) ==
    LET read == getCurrentWorkState(file, today)
        newItem == [description |-> description,
                    priority    |-> IF priority = "" THEN "medium" ELSE priority,
                    createdAt   |-> today]
    IN  IF read.threw \/ "openItems" \notin read.state.has THEN Failed(file, read)
        ELSE Completed(saveCurrentWorkState(
                 [read.state EXCEPT !.openItems = Append(@, newItem)], today), read)

\* updateLastSession, as the command line calls it (filesModified undefined,
\* which JSON.stringify leaves out).
updateLastSession(file, summary, nextSteps, today) ==
    LET read == getCurrentWorkState(file, today)
        lastSession == [date |-> today, summary |-> summary, nextSteps |-> nextSteps]
    IN  IF read.threw THEN Failed(file, read)
        ELSE Completed(saveCurrentWorkState(
                 [read.state EXCEPT !.lastSession = lastSession,
                                    !.has = @ \cup {"lastSession"}], today), read)

\* addActiveProject saving the state also when the project is there already.
addActiveProject_Resave(file, projectName, today) ==
    LET read == getCurrentWorkState(file, today)
    IN  IF read.threw \/ "activeProjects" \notin read.state.has THEN Failed(file, read)
        ELSE IF projectName \in Range(read.state.activeProjects)
        THEN Completed(saveCurrentWorkState(read.state, today), read)
        ELSE Completed(saveCurrentWorkState(
                 [read.state EXCEPT !.activeProjects = Append(@, projectName)], today), read)

\* addActiveProject: saves only when the project is new.
addActiveProject(file, projectName, today) ==
    LET read == getCurrentWorkState(file, today)
    IN  IF read.threw \/ "activeProjects" \notin read.state.has THEN Failed(file, read)
        ELSE IF projectName \in Range(read.state.activeProjects) THEN Completed(file, read)
        ELSE Completed(saveCurrentWorkState(
                 [read.state EXCEPT !.activeProjects = Append(@, projectName)], today), read)

\* removeActiveProject.
removeActiveProject(file, projectName, today) ==
    LET read == getCurrentWorkState(file, today)
    IN  IF read.threw \/ "activeProjects" \notin read.state.has THEN Failed(file, read)
        ELSE Completed(saveCurrentWorkState(
                 [read.state EXCEPT !.activeProjects =
                     SelectSeq(@, LAMBDA p : p # projectName)], today), read)

\* clearOpenItem.
clearOpenItem(file, description, today) ==
    LET read == getCurrentWorkState(file, today)
    IN  IF read.threw \/ "openItems" \notin read.state.has THEN Failed(file, read)
        ELSE Completed(saveCurrentWorkState(
                 [read.state EXCEPT !.openItems =
                     SelectSeq(@, LAMBDA item : item.description # description)], today), read)

\* The entry of patterns for a theme after one more week: created with count
\* 0 and no weeks when the index has none, then counted and dated.
AddPattern(patterns, pattern, weekStart) ==
    IF \E i \in DOMAIN patterns : patterns[i].theme = pattern.theme
    THEN [i \in DOMAIN patterns |->
            IF patterns[i].theme = pattern.theme
            THEN [theme |-> pattern.theme,
                  count |-> patterns[i].count + pattern.occurrences,
                  weeks |-> Append(patterns[i].weeks, weekStart)]
            ELSE patterns[i]]
    ELSE Append(patterns, [theme |-> pattern.theme,
                           count |-> 0 + pattern.occurrences,
                           weeks |-> <<weekStart>>])

\* The loop of updateMemoryIndex over result.patterns; the members of
\* patterns keep the order of their insertion.
RECURSIVE AddPatterns(_, _, _)
AddPatterns(patterns, added, weekStart) ==
    IF added = <<>> THEN patterns
    ELSE AddPatterns(AddPattern(patterns, Head(added), weekStart), Tail(added), weekStart)

\* The index updateMemoryIndex starts from: the parsed file, or
\* { weeks: [], patterns: {} } when the file is missing or does not parse.
IndexRead(file) ==
    IF file.exists /\ JSONparse(file.text, EmptyIndexObject).ok
    THEN JSONparse(file.text, EmptyIndexObject).value
    ELSE [has |-> IndexMembers, weeks |-> <<>>, patterns |-> <<>>]

\* The index in memory after the week's record and patterns are added.
IndexWith(index, result, synthesisPath) ==
    [has      |-> index.has \cup IndexMembers,
     weeks    |-> Append(index.weeks,
                         [start     |-> result.weekStart,
                          end       |-> result.weekEnd,
                          learnings |-> result.totalLearnings,
                          patterns  |-> Len(result.patterns),
                          file      |-> ReplaceFirst(synthesisPath, PAI_HOME \o <<"/">>, <<>>)]),
     patterns |-> AddPatterns(index.patterns, result.patterns, result.weekStart)]

\* updateMemoryIndex keeping only the week of this run.
updateMemoryIndex_Overwrite(file, result, synthesisPath) ==
    [file  |-> FileOf(StringifyIndex(
                  [has      |-> IndexMembers,
                   weeks    |-> <<[start     |-> result.weekStart,
                                   end       |-> result.weekEnd,
                                   learnings |-> result.totalLearnings,
                                   patterns  |-> Len(result.patterns),
                                   file      |-> ReplaceFirst(synthesisPath, PAI_HOME \o <<"/">>, <<>>)]>>,
                   patterns |-> AddPatterns(<<>>, result.patterns, result.weekStart)])),
     found |-> "missing",
     ok    |-> TRUE]

\* updateMemoryIndex: the file it writes.  A file that is missing or does
\* not parse leaves the index at { weeks: [], patterns: {} }.
updateMemoryIndex(file, result, synthesisPath) ==
    [file  |-> writeFileSync(file, StringifyIndex(IndexWith(IndexRead(file), result, synthesisPath))),
     found |-> IF ~file.exists THEN "missing"
               ELSE IF JSONparse(file.text, EmptyIndexObject).ok THEN "parsed" ELSE "corrupt",
     ok    |-> TRUE]

-----------------------------------------------------------------------------
(* The state tools run on sample documents                                 *)

MaxDay == 2
MaxItems == 1
MaxWeeks == 2

\* The days on which the operations of a behaviour can run; new Date() is
\* that day throughout.
Days == 1..MaxDay
SampleDescriptions == {"Fix memory bug", "Write docs"}
SamplePriorities == {"", "high"}
SampleProjects == {"Project-A", "Project-B"}

\* Two results of synthesize, with the members that updateMemoryIndex reads.
ResultWithBug ==
    [weekStart |-> "2026-01-26", weekEnd |-> "2026-02-01", totalLearnings |-> 3,
     patterns |-> <<[theme |-> <<"b","u","g">>, occurrences |-> 3]>>]
ResultQuiet ==
    [weekStart |-> "2026-02-02", weekEnd |-> "2026-02-08", totalLearnings |-> 1,
     patterns |-> <<>>]
SampleResults == {ResultWithBug, ResultQuiet}

\* '/h/.claude/MEMORY/LEARNING/SYNTHESIS/w.md'
SynthesisPath ==
    PAI_HOME \o <<"/","M","E","M","O","R","Y","/","L","E","A","R","N","I","N","G","/",
                  "S","Y","N","T","H","E","S","I","S","/","w",".","m","d">>

\* The files that other means can leave in place of a document: none, and
\* raw texts without and with a JSON value.
ForeignFiles ==
    {NoFile, FileOf(RawText(<<>>)), FileOf(RawText(RawTruncated)), FileOf(RawText(RawEmptyObject))}

\* What an operation reports; `arg` is the project or description it was
\* called with, `command` holds the arguments of a command line that the CLI
\* switch did not know.
NoStateOut ==
    [op |-> "none", arg |-> "", found |-> "none", ok |-> TRUE, state |-> EmptyStateObject,
     command |-> <<>>]

StateIdle ==
    /\ wFile = NoFile
    /\ iFile = NoFile
    /\ wOut = NoStateOut
    /\ wToday = 1

\* session-continuity.json is removed, truncated or replaced by other means.
ReplaceStateFile ==
    /\ \E f \in ForeignFiles : wFile # f /\ wFile' = f
    /\ wOut' = NoStateOut
    /\ UNCHANGED <<iFile, wToday, synthVars, searchVars, dbVars, cliVars, raceVars, metaVars, reportVars, loaderVars>>

\* memory-index.json is removed, truncated or replaced by other means.
ReplaceIndexFile ==
    /\ \E f \in ForeignFiles : iFile # f /\ iFile' = f
    /\ wOut' = NoStateOut
    /\ UNCHANGED <<wFile, wToday, synthVars, searchVars, dbVars, cliVars, raceVars, metaVars, reportVars, loaderVars>>

\* The outcome of an operation on session-continuity.json becomes the state.
StateOutcome(op, arg, r) ==
    /\ wFile' = r.file
    /\ wOut' = [NoStateOut EXCEPT !.op = op, !.arg = arg, !.found = r.found, !.ok = r.ok]
    /\ UNCHANGED <<iFile, wToday, synthVars, searchVars, dbVars, cliVars, raceVars, metaVars, reportVars, loaderVars>>

\* The state after the operation holds at most MaxItems open items.
WithinItems(r) ==
    r.file.exists /\ r.file.text.rendered => Len(r.file.text.value.openItems) <= MaxItems

\* A day passes: new Date() is the next day from here on.
NextDay ==
    /\ wToday < MaxDay
    /\ wToday' = wToday + 1
    /\ wOut' = NoStateOut
    /\ UNCHANGED <<wFile, iFile, synthVars, searchVars, dbVars, cliVars, raceVars, metaVars, reportVars, loaderVars>>

\* The command show.
Show ==
    /\ \E read \in {getCurrentWorkState(wFile, wToday)} :
         wOut' = [NoStateOut EXCEPT !.op = "show", !.found = read.found,
                                    !.ok = ~read.threw, !.state = read.state]
    /\ UNCHANGED <<wFile, iFile, wToday, synthVars, searchVars, dbVars, cliVars, raceVars, metaVars, reportVars, loaderVars>>

\* The command add-item.
AddItem ==
    \E description \in SampleDescriptions : \E priority \in SamplePriorities :
    \E r \in {addOpenItem(wFile, description, priority, wToday)} :
        /\ WithinItems(r)
        /\ StateOutcome("add-item", description, r)

\* The command add-project.
AddProject ==
    \E projectName \in SampleProjects :
        StateOutcome("add-project", projectName, addActiveProject(wFile, projectName, wToday))

\* The command update-session.
UpdateSession ==
    StateOutcome("update-session", "",
                 updateLastSession(wFile, "Built phase 2", <<"Test integration">>, wToday))

\* A call of removeActiveProject.
RemoveProject ==
    \E projectName \in SampleProjects :
        StateOutcome("remove-project", projectName, removeActiveProject(wFile, projectName, wToday))

\* A call of clearOpenItem.
ClearItem ==
    \E description \in SampleDescriptions :
        StateOutcome("clear-item", description, clearOpenItem(wFile, description, wToday))

\* The end of main of the weekly synthesis: updateMemoryIndex.
UpdateMemoryIndex ==
    \E result \in SampleResults :
    \E r \in {updateMemoryIndex(iFile, result, SynthesisPath)} :
            /\ Len(r.file.text.value.weeks) <= MaxWeeks
            /\ iFile' = r.file
            /\ wOut' = [NoStateOut EXCEPT !.op = "update-index", !.found = r.found, !.ok = r.ok]
            /\ UNCHANGED <<wFile, wToday, synthVars, searchVars, dbVars, cliVars, raceVars, metaVars, reportVars, loaderVars>>

\* The commands of the usage guide that the CLI switch has no case for.
UndocumentedCommands ==
    {<<"remove-project", projectName>> : projectName \in SampleProjects}
    \cup {<<"clear-item", description>> : description \in SampleDescriptions}

\* The command line with a command that the switch has no case for: the
\* default branch prints the usage and nothing is read or written.
OtherCommand ==
    /\ \E command \in UndocumentedCommands :
         wOut' = [NoStateOut EXCEPT !.op = "usage", !.command = command]
    /\ UNCHANGED <<wFile, iFile, wToday, synthVars, searchVars, dbVars, cliVars, raceVars, metaVars, reportVars, loaderVars>>

NextState ==
    \/ ReplaceStateFile \/ ReplaceIndexFile \/ NextDay
    \/ Show \/ AddItem \/ AddProject \/ UpdateSession \/ RemoveProject \/ ClearItem
    \/ UpdateMemoryIndex \/ OtherCommand

-----------------------------------------------------------------------------
(* The command lines of MemorySearch.ts, WeeklySynthesis.ts and            *)
(* MemoryDatabase.ts                                                       *)

\* s.startsWith(p)
StartsWith(s, p) == Len(p) <= Len(s) /\ SubSeq(s, 1, Len(p)) = p

UpperChar(c) ==
    IF IsLower(c) THEN UpperCase[CHOOSE i \in DOMAIN LowerCase : LowerCase[i] = c] ELSE c

\* s.toUpperCase()
toUpperCase(s) == [i \in DOMAIN s |-> UpperChar(s[i])]

\* The time value of an Invalid Date; every comparison with it is false.
NaN == 0 - 2

\* Whether s reads YYYY-MM-DD.
IsISODate(s) ==
    /\ Len(s) = 10
    /\ DigitsAt(s, 1, 4) /\ s[5] = "-"
    /\ DigitsAt(s, 6, 2) /\ s[8] = "-"
    /\ DigitsAt(s, 9, 2)

\* new Date(s), for the strings of the samples: a YYYY-MM-DD string with a
\* month of 1..12 and a day of 1..31 is midnight UTC of that date, a string
\* in that format with other numbers, or with no number at all, is an
\* Invalid Date.
NewDate(s) ==
    IF /\ IsISODate(s)
       /\ parseInt(SubSeq(s, 6, 7)) \in 1..12
       /\ parseInt(SubSeq(s, 9, 10)) \in 1..31
    THEN DateFromISO(s)
    ELSE NaN

\* What an invocation reports: its tool and arguments, its exit status, the
\* error it printed, whether it went on to search or synthesize, and the
\* values it went on with.  An undefined type or date is the empty sequence,
\* a date is a one-element sequence.
NoCliOut ==
    [tool |-> "none", args |-> <<>>, exit |-> 0, error |-> "", ran |-> FALSE,
     query |-> <<>>, type |-> <<>>, since |-> <<>>,
     weekStart |-> <<>>, weekEnd |-> <<>>, learnings |-> 0, wrote |-> FALSE]

\* process.exit(code), after an error message (or none).
Exit(out, code, error) == [out EXCEPT !.exit = code, !.error = error]

ValidTypes == {<<"A","L","G","O","R","I","T","H","M">>, <<"S","Y","S","T","E","M">>, <<"W","O","R","K">>}

\* The loop of parseArgs from argument i; `exited` is set by process.exit.
RECURSIVE ParseLoop(_, _, _)
ParseLoop(args, i, out) ==
    IF i > Len(args) THEN [exited |-> FALSE, out |-> out]
    ELSE IF args[i] = <<"-","-","t","y","p","e">> /\ i + 1 <= Len(args) /\ args[i + 1] # <<>>
    THEN IF toUpperCase(args[i + 1]) \notin ValidTypes
         THEN [exited |-> TRUE,
               out |-> Exit([out EXCEPT !.type = toUpperCase(args[i + 1])], 1, "Invalid type")]
         ELSE ParseLoop(args, i + 2, [out EXCEPT !.type = toUpperCase(args[i + 1])])
    ELSE IF args[i] = <<"-","-","s","i","n","c","e">> /\ i + 1 <= Len(args) /\ args[i + 1] # <<>>
    THEN IF NewDate(args[i + 1]) = NaN
         THEN [exited |-> TRUE, out |-> Exit(out, 1, "Invalid date")]
         ELSE ParseLoop(args, i + 2, [out EXCEPT !.since = <<NewDate(args[i + 1])>>])
    ELSE IF ~StartsWith(args[i], <<"-","-">>)
    THEN ParseLoop(args, i + 1, [out EXCEPT !.query = args[i]])
    ELSE ParseLoop(args, i + 1, out)

\* The end of parseArgs: an empty query is an error.
CheckQuery(parsed) ==
    IF parsed.exited THEN parsed
    ELSE IF parsed.out.query = <<>>
    THEN [exited |-> TRUE, out |-> Exit(parsed.out, 1, "No search query provided")]
    ELSE parsed

\* parseArgs of MemorySearch.ts.
parseArgs(args) ==
    IF args = <<>> \/ args[1] = <<"-","-","h","e","l","p">> \/ args[1] = <<"-","h">>
    THEN [exited |-> TRUE, out |-> Exit([NoCliOut EXCEPT !.tool = "MemorySearch", !.args = args], 0, "")]
    ELSE CheckQuery(ParseLoop(args, 1, [NoCliOut EXCEPT !.tool = "MemorySearch", !.args = args]))

\* main of MemorySearch.ts, to the call of search.
MemorySearchRun(parsed) ==
    IF parsed.exited THEN parsed.out ELSE [parsed.out EXCEPT !.ran = TRUE]

\* main of MemoryDatabase.ts: the command is args[0], the query of search is
\* args.slice(1).join(" ").
MemoryDatabaseRun(args) ==
    LET out == [NoCliOut EXCEPT !.tool = "MemoryDatabase", !.args = args]
    IN  IF args = <<>> \/ args[1] = <<>> \/ args[1] = <<"h","e","l","p">> THEN out
        ELSE IF args[1] \in {<<"i","n","i","t">>, <<"s","y","n","c">>, <<"s","t","a","t","s">>} THEN [out EXCEPT !.ran = TRUE]
        ELSE IF args[1] = <<"s","e","a","r","c","h">>
        THEN IF Join(Tail(args), <<" ">>) = <<>>
             THEN Exit(out, 1, "No search query provided")
             ELSE [out EXCEPT !.ran = TRUE, !.query = Join(Tail(args), <<" ">>)]
        ELSE Exit(out, 1, "Unknown command")

\* args.includes('--dry-run')
dryRun_Never(args) == FALSE

dryRun(args) == \E i \in DOMAIN args : args[i] = <<"-","-","d","r","y","-","r","u","n">>

\* args.find(a => a.startsWith('--date='))?.split('=')[1]; undefined and the
\* empty string are both falsy and are both the empty sequence here.
dateArg(args) ==
    IF \A i \in DOMAIN args : ~StartsWith(args[i], <<"-","-","d","a","t","e","=">>) THEN <<>>
    ELSE Split(args[Leftmost({i \in DOMAIN args : StartsWith(args[i], <<"-","-","d","a","t","e","=">>)})], "=")[2]

\* dateArg ? new Date(dateArg) : new Date()
EndDate(args, now) == IF dateArg(args) # <<>> THEN NewDate(dateArg(args)) ELSE now

\* getWeekRange: an Invalid Date is an object, hence truthy, and stays the
\* end; setDate(getDate() - 7) is 7 days earlier (no change of offset within
\* the week).
getWeekRange(endDate) ==
    [start |-> IF endDate = NaN THEN NaN ELSE endDate - 7 * 24, end |-> endDate]

\* s.padStart(width, c)
padStart(s, width, c) == IF Len(s) >= width THEN s ELSE [i \in 1..(width - Len(s)) |-> c] \o s

\* formatDate, for a process tz hours east of UTC: the local date, the
\* inverse of DayNumber.
formatDate(date, tz) ==
    IF date = NaN THEN <<"N","a","N","-","N","a","N","-","N","a","N">>
    ELSE DigitsOf((((date + tz) \div 24) - 1) \div (31 * 12)) \o <<"-">>
         \o padStart(DigitsOf((((((date + tz) \div 24) - 1) \div 31) % 12) + 1), 2, "0") \o <<"-">>
         \o padStart(DigitsOf(((((date + tz) \div 24) - 1) % 31) + 1), 2, "0")

\* stats.mtime >= startDate && stats.mtime <= endDate
InRange(mtime, startDate, endDate) ==
    /\ startDate # NaN /\ endDate # NaN
    /\ mtime >= startDate /\ mtime <= endDate

LEARNING_DIR == MEMORY_DIR \o <<"/","L","E","A","R","N","I","N","G">>
SYNTHESIS_DIR == LEARNING_DIR \o <<"/","S","Y","N","T","H","E","S","I","S">>

\* The path of the report of the week that ends at weekEnd.
ReportPath(weekEnd) ==
    SYNTHESIS_DIR \o <<"/">> \o SubSeq(weekEnd, 1, Min(7, Len(weekEnd)))
    \o <<"/","W","e","e","k","l","y","-","S","y","n","t","h","e","s","i","s","-">> \o weekEnd \o <<".","m","d">>

\* main after synthesize with the index updated before the report is
\* written.
Synthesized_IndexFirst(args, out, result, reports, index, writable) ==
    IF dryRun(args) THEN [reports |-> reports, index |-> index, out |-> out]
    ELSE IF ~writable
    THEN [reports |-> reports,
          index   |-> updateMemoryIndex(index, result, ReportPath(result.weekEnd)).file,
          out     |-> Exit(out, 1, "Error")]
    ELSE [reports |-> reports \cup {ReportPath(result.weekEnd)},
          index   |-> updateMemoryIndex(index, result, ReportPath(result.weekEnd)).file,
          out     |-> [out EXCEPT !.wrote = TRUE]]

\* main of WeeklySynthesis.ts after synthesize: a dry run previews and
\* exits, any other run writes the report and then updates the index.  When
\* the report cannot be written (`writable` is false) mkdirSync or
\* writeFileSync throws, and main's catch reports the error and exits with
\* status 1 before the index is touched.
Synthesized(args, out, result, reports, index, writable) ==
    IF dryRun(args) THEN [reports |-> reports, index |-> index, out |-> out]
    ELSE IF ~writable
    THEN [reports |-> reports, index |-> index, out |-> Exit(out, 1, "Error")]
    ELSE [reports |-> reports \cup {ReportPath(result.weekEnd)},
          index   |-> updateMemoryIndex(index, result, ReportPath(result.weekEnd)).file,
          out     |-> [out EXCEPT !.wrote = TRUE]]

\* main after loadLearnings: with no learnings it exits with status 0.
Loaded(args, out, learnings, reports, index, writable) ==
    IF learnings = <<>>
    THEN [reports |-> reports, index |-> index, out |-> out]
    ELSE Synthesized(args, [out EXCEPT !.ran = TRUE, !.learnings = Len(learnings)],
                     [weekStart      |-> out.weekStart,
                      weekEnd        |-> out.weekEnd,
                      totalLearnings |-> Len(learnings),
                      patterns       |-> synthesize(learnings).patterns],
                     reports, index, writable)

\* main from the week's range on; loadLearnings keeps the files whose mtime
\* lies in the range.
WeekOf(args, range, tz, corpus, reports, index, writable) ==
    Loaded(args,
           [NoCliOut EXCEPT !.tool = "WeeklySynthesis", !.args = args,
                            !.weekStart = formatDate(range.start, tz),
                            !.weekEnd = formatDate(range.end, tz)],
           loadLearnings(SelectSeq(corpus, LAMBDA f : InRange(f.mtime, range.start, range.end))),
           reports, index, writable)

\* main of WeeklySynthesis.ts: what it leaves on disk and reports.
WeeklySynthesisRun(args, now, tz, corpus, reports, index, writable) ==
    WeekOf(args, getWeekRange(EndDate(args, now)), tz, corpus, reports, index, writable)

-----------------------------------------------------------------------------
(* The command lines run on sample arguments                               *)

\* Invocations of MemorySearch.ts.
SearchArgs ==
    { <<>>,
      <<<<"-","-","h","e","l","p">>>>,
      <<<<"a","b">>>>,
      <<<<>>>>,
      <<<<"-","-","t","y","p","e">>>>,
      <<<<"-","-","t","y","p","e">>, <<"w","o","r","k">>>>,
      <<<<"-","-","t","y","p","e">>, <<"f","o","o">>>>,
      <<<<"-","-","s","i","n","c","e">>, <<"2","0","2","6","-","0","1","-","2","9">>>>,
      <<<<"-","-","s","i","n","c","e">>, <<"2","0","2","6","-","1","3","-","4","5">>>>,
      <<<<"a","b">>, <<"-","-","t","y","p","e">>>>,
      <<<<"a","b">>, <<"-","-","s","i","n","c","e">>>>,
      <<<<"a","b">>, <<"-","-","t","y","p","e">>, <<"w","o","r","k">>>>,
      <<<<"a","b">>, <<"-","-","t","y","p","e">>, <<"f","o","o">>>>,
      <<<<"-","-","t","y","p","e">>, <<"f","o","o">>, <<"a","b">>>>,
      <<<<"a","b">>, <<"-","-","s","i","n","c","e">>, <<"2","0","2","6","-","0","1","-","2","9">>>>,
      <<<<"a","b">>, <<"-","-","s","i","n","c","e">>, <<"2","0","2","6","-","1","3","-","4","5">>>>,
      <<<<"a","b">>, <<"-","-","s","i","n","c","e">>, <<"g","a","r","b","a","g","e">>>>,
      <<<<"-","-","s","i","n","c","e">>, <<"g","a","r","b","a","g","e">>, <<"a","b">>>>,
      <<<<"a","b">>, <<"-","-","t","y","p","e">>, <<"s","y","s","t","e","m">>, <<"-","-","s","i","n","c","e">>, <<"2","0","2","6","-","0","1","-","2","9">>>>,
      <<<<"a","b">>, <<"-","-","t","y","p","e">>, <<"f","o","o">>, <<"-","-","s","i","n","c","e">>, <<"g","a","r","b","a","g","e">>>> }

\* Invocations of WeeklySynthesis.ts.
WeeklyArgs ==
    { <<>>,
      <<<<"-","-","d","r","y","-","r","u","n">>>>,
      <<<<"-","-","d","a","t","e","=","2","0","2","6","-","0","2","-","0","1">>>>,
      <<<<"-","-","d","a","t","e","=","2","0","2","6","-","0","2","-","0","1">>, <<"-","-","d","r","y","-","r","u","n">>>>,
      <<<<"-","-","d","a","t","e">>, <<"2","0","2","6","-","0","2","-","0","1">>>>,
      <<<<"-","-","d","a","t","e">>, <<"2","0","2","6","-","0","2","-","0","1">>, <<"-","-","d","r","y","-","r","u","n">>>>,
      <<<<"-","-","d","a","t","e","=","g","a","r","b","a","g","e">>>>,
      <<<<"-","-","d","a","t","e","=","2","0","2","6","-","1","3","-","4","5">>>>,
      <<<<"-","-","d","a","t","e">>, <<"g","a","r","b","a","g","e">>>>,
      <<<<"-","-","d","a","t","e","=">>>> }

\* Invocations of MemoryDatabase.ts.
DatabaseArgs ==
    { <<>>,
      <<<<"h","e","l","p">>>>,
      <<<<"i","n","i","t">>>>,
      <<<<"s","y","n","c">>>>,
      <<<<"s","t","a","t","s">>>>,
      <<<<"s","e","a","r","c","h">>>>,
      <<<<"s","e","a","r","c","h">>, <<>>>>,
      <<<<"s","e","a","r","c","h">>, <<"a","l","p","h","a">>>>,
      <<<<"s","e","a","r","c","h">>, <<"a","l","p","h","a">>, <<"b","e","t","a">>>>,
      <<<<"b","o","g","u","s">>>> }

\* The time of the runs: noon UTC of 2026-02-05.
TimeNow == DateFromISO(<<"2","0","2","6","-","0","2","-","0","5">>) + 12

\* Times of last modification: one in the week that ends on 2026-02-01 and
\* not in the week that ends at TimeNow, and one the other way round.
MtimeEarlier == DateFromISO(<<"2","0","2","6","-","0","1","-","2","7">>) + 12
MtimeRecent == DateFromISO(<<"2","0","2","6","-","0","2","-","0","3">>) + 12

\* Three learnings about a bug, last modified at mtime.
CorpusAt(mtime) ==
    [i \in 1..3 |-> [path |-> i, content |-> ContentBug, date |-> i,
                     readable |-> TRUE, mtime |-> mtime]]

\* Learnings of both weeks.
CorpusBoth ==
    [i \in 1..6 |-> [path |-> i, content |-> ContentBug, date |-> i, readable |-> TRUE,
                     mtime |-> IF i <= 3 THEN MtimeEarlier ELSE MtimeRecent]]

SampleCorpora == {<<>>, CorpusAt(MtimeEarlier), CorpusAt(MtimeRecent), CorpusBoth}

CliIdle ==
    /\ cNow = TimeNow
    /\ cTz = 0
    /\ cCorpus = <<>>
    /\ cReports = {}
    /\ cIndex = NoFile
    /\ cOut = NoCliOut

\* One invocation of MemorySearch.ts.
MemorySearchMain ==
    /\ \E args \in SearchArgs : cOut' = MemorySearchRun(parseArgs(args))
    /\ UNCHANGED <<cNow, cTz, cCorpus, cReports, cIndex, synthVars, searchVars, dbVars, stateVars, raceVars, metaVars, reportVars, loaderVars>>

\* One invocation of MemoryDatabase.ts.
MemoryDatabaseMain ==
    /\ \E args \in DatabaseArgs : cOut' = MemoryDatabaseRun(args)
    /\ UNCHANGED <<cNow, cTz, cCorpus, cReports, cIndex, synthVars, searchVars, dbVars, stateVars, raceVars, metaVars, reportVars, loaderVars>>

\* One invocation of WeeklySynthesis.ts.
WeeklySynthesisMain ==
    /\ \E args \in WeeklyArgs : \E writable \in BOOLEAN :
       \E r \in {WeeklySynthesisRun(args, cNow, cTz, cCorpus, cReports, cIndex, writable)} :
         /\ r.index.exists => Len(r.index.text.value.weeks) <= MaxWeeks
         /\ cReports' = r.reports
         /\ cIndex' = r.index
         /\ cOut' = r.out
    /\ UNCHANGED <<cNow, cTz, cCorpus, synthVars, searchVars, dbVars, stateVars, raceVars, metaVars, reportVars, loaderVars>>

NextCli == MemorySearchMain \/ MemoryDatabaseMain \/ WeeklySynthesisMain

-----------------------------------------------------------------------------
(* Two processes on the JSON documents                                     *)

\* The number of operations one process performs.
MaxOps == 1

Procs == {1, 2}

\* The operations a process can perform: addOpenItem on
\* session-continuity.json or updateMemoryIndex on memory-index.json.
RaceOps ==
    {[name |-> "add-item", doc |-> "state", description |-> d, result |-> ResultQuiet] :
        d \in SampleDescriptions}
    \cup
    {[name |-> "update-index", doc |-> "index", description |-> "", result |-> r] :
        r \in SampleResults}

NoOp == [name |-> "none", doc |-> "none", description |-> "", result |-> ResultQuiet]

\* The in-memory copy of addOpenItem before saveCurrentWorkState: the state
\* read, with the new item pushed.
ItemPushed(file, description, today) ==
    [getCurrentWorkState(file, today).state EXCEPT
        !.openItems = Append(@, [description |-> description,
                                 priority    |-> "medium",
                                 createdAt   |-> today])]

\* The in-memory copy an operation holds between its read and its write.
CopyOf(op, files, today) ==
    IF op.doc = "state" THEN ItemPushed(files.state, op.description, today)
    ELSE IndexWith(IndexRead(files.index), op.result, SynthesisPath)

\* The text an operation writes from its copy: saveCurrentWorkState stamps
\* lastUpdated, updateMemoryIndex writes the index as it is.
TextOf(doc, copy, today) ==
    IF doc = "state" THEN saveCurrentWorkState(copy, today).text ELSE StringifyIndex(copy)

RaceIdle ==
    /\ rFile = [state |-> NoFile, index |-> NoFile]
    /\ rProc = [p \in Procs |-> [pc |-> "idle", op |-> NoOp, copy |-> NoValue, ops |-> 0]]
    /\ rLast = <<>>

\* A process starts an operation and reads the document into memory.
RaceRead(p) ==
    /\ rProc[p].pc = "idle"
    /\ rProc[p].ops < MaxOps
    /\ \E op \in RaceOps :
         rProc' = [rProc EXCEPT ![p] = [pc   |-> "read",
                                        op   |-> op,
                                        copy |-> CopyOf(op, rFile, wToday),
                                        ops  |-> @.ops + 1]]
    /\ UNCHANGED <<rFile, rLast, synthVars, searchVars, dbVars, stateVars, cliVars, metaVars, reportVars, loaderVars>>

\* The process writes its copy.
RaceWrite(p) ==
    /\ rProc[p].pc = "read"
    /\ rFile' = [rFile EXCEPT ![rProc[p].op.doc] =
                    writeFileSync(@, TextOf(rProc[p].op.doc, rProc[p].copy, wToday))]
    /\ rLast' = Append(rLast, [proc |-> p, op |-> rProc[p].op, copy |-> rProc[p].copy])
    /\ rProc' = [rProc EXCEPT ![p] = [@ EXCEPT !.pc = "idle", !.copy = NoValue]]
    /\ UNCHANGED <<synthVars, searchVars, dbVars, stateVars, cliVars, metaVars, reportVars, loaderVars>>

NextRace == \E p \in Procs : RaceRead(p) \/ RaceWrite(p)

-----------------------------------------------------------------------------
(* WeeklySynthesis.ts: the report                                          *)

\* new Date().toISOString() at the instant `now`: the text of the instant,
\* written here as its digits; two instants have two texts.
toISOString(now) == DigitsOf(now)

\* The title loadLearnings gives a Learning: the first top-level heading of
\* the content, or the file's name without '.md' (the model names the files
\* by number).
TitleOf(learning) ==
    IF TopicMatch(learning.content) # <<>> THEN TopicMatch(learning.content)
    ELSE DigitsOf(learning.path)

\* The text of an insight: its template with the number in place.
InsightText(insight) == <<insight[1]>> \o DigitsOf(insight[2])

\* The lines pushed for one pattern.  A line is the sequence of the pieces of
\* text it is made of.
PatternLines(pattern) ==
    << <<"### ">> \o pattern.theme \o <<" (">> \o DigitsOf(pattern.occurrences)
         \o <<" occurrences)">>,
       <<>>,
       <<"**Insight:** ">> \o InsightText(pattern.insight),
       <<>>,
       <<"**Related Learnings:**">> >>
    \o [i \in 1..Min(5, Len(pattern.learnings)) |->
          <<"- [">> \o DigitsOf(pattern.learnings[i].date) \o <<"] ">>
            \o TitleOf(pattern.learnings[i])]
    \o << <<>> >>

\* The patterns section.
PatternsSection(result) ==
    IF Len(result.patterns) > 0
    THEN << <<"## (mag) Patterns Detected">>, <<>> >>
         \o Concat([i \in 1..Min(10, Len(result.patterns)) |-> PatternLines(result.patterns[i])])
    ELSE << <<"## (mag) Patterns Detected">>, <<>>,
            <<"No significant patterns detected this week (requires 3+ similar learnings).">>,
            <<>> >>

\* The key insights section.
InsightsSection(result) ==
    IF Len(result.topInsights) > 0
    THEN << <<"## (bulb) Key Insights">>, <<>> >>
         \o [i \in DOMAIN result.topInsights |-> <<"- ">> \o InsightText(result.topInsights[i])]
         \o << <<>> >>
    ELSE <<>>

\* The low ratings section.
LowRatingsSection(result) ==
    IF Len(result.lowRatings) > 0
    THEN << <<"## (warning) Areas for Improvement">>, <<>>,
            <<"Learnings with low ratings (<=3/10) requiring attention:">>, <<>> >>
         \o [i \in DOMAIN result.lowRatings |->
               <<"- **[">> \o DigitsOf(result.lowRatings[i].date) \o <<"]** ">>
                 \o TitleOf(result.lowRatings[i]) \o <<" (">>
                 \o DigitsOf(result.lowRatings[i].rating) \o <<"/10)">>]
         \o << <<>> >>
    ELSE <<>>

\* The action items section.
ActionItems(result) ==
    << <<"## (clipboard) Action Items">>, <<>> >>
    \o (IF Len(result.patterns) > 0
        THEN << <<"- Review top patterns and identify systemic improvements">> >> ELSE <<>>)
    \o (IF Len(result.lowRatings) > 0
        THEN << <<"- Address root causes of low-rated learnings">> >> ELSE <<>>)
    \o << <<"- Apply lessons to upcoming work">>, <<>> >>

\* generateMarkdown called at the instant `now`: the lines it joins.  The
\* pictographs of the headings are written by name.
generateMarkdown(result, now) ==
    << <<"# Weekly Synthesis - ">> \o result.weekStart \o <<" to ">> \o result.weekEnd,
       <<>>,
       <<"**Generated:** ">> \o toISOString(now),
       <<"**Total Learnings:** ">> \o DigitsOf(result.totalLearnings),
       <<>>,
       <<"---">>,
       <<>> >>
    \o PatternsSection(result)
    \o InsightsSection(result)
    \o LowRatingsSection(result)
    \o ActionItems(result)
    \o << <<"---">>, <<>>, <<"*Auto-generated by WeeklySynthesis.ts*">> >>

\* The instants of the clock are 0..MaxClock; generateMarkdown is called at
\* most MaxReports times.
MaxClock == 3
MaxReports == 2

\* The learnings of a week of three files, each about a bug (rated 3 or
\* unrated) or a refactoring.
ReportCorpora ==
    {[i \in 1..3 |-> [path |-> i, content |-> c[i], date |-> i, readable |-> TRUE]] :
        c \in [1..3 -> {ContentBug, ContentBugLow, ContentRefactor}]}

\* synthesize for a week, with the week's bounds.
WeekResult(files, weekStart, weekEnd) ==
    LET result == synthesize(loadLearnings(files))
    IN  [weekStart      |-> weekStart,
         weekEnd        |-> weekEnd,
         totalLearnings |-> result.totalLearnings,
         patterns       |-> result.patterns,
         topInsights    |-> result.topInsights,
         lowRatings     |-> result.lowRatings]

\* The results of the week 2026-01-29 to 2026-02-05 on the sample corpora.
ReportResults ==
    {WeekResult(files, <<"2","0","2","6","-","0","1","-","2","9">>,
                <<"2","0","2","6","-","0","2","-","0","5">>) : files \in ReportCorpora}

ReportIdle ==
    /\ gResult = WeekResult(<<>>, <<>>, <<>>)
    /\ gClock = 0
    /\ gReports = <<>>

\* Time passes.
Tick ==
    /\ gClock < MaxClock
    /\ gClock' = gClock + 1
    /\ UNCHANGED <<gResult, gReports, synthVars, searchVars, dbVars, stateVars, cliVars, raceVars, metaVars, loaderVars>>

\* One call of generateMarkdown on the result.
GenerateMarkdown ==
    /\ Len(gReports) < MaxReports
    /\ gReports' = Append(gReports, generateMarkdown(gResult, gClock))
    /\ UNCHANGED <<gResult, gClock, synthVars, searchVars, dbVars, stateVars, cliVars, raceVars, metaVars, loaderVars>>

NextReport == Tick \/ GenerateMarkdown

-----------------------------------------------------------------------------
(* SessionContextLoader.ts: loadRecentLearnings                            *)

\* The numbers of the slices: of the current month's files, of the previous
\* month's, and of the result.
TopCurrent == 5
TopPrevious == 2
MaxLearnings == 5

\* The entries of one month directory that loadRecentLearnings reads: the
\* files of the directory in readdir order that are no sentiment-rating
\* files and were modified after the cutoff, the most recent first (a stable
\* sort), cut to `top`.
RecentFiles(disk, subdir, month, cutoff, top) ==
    LET files == SelectSeq(disk, LAMBDA f : /\ f.subdir = subdir /\ f.month = month
                                            /\ f.kind # "sentiment"
                                            /\ f.mtime > cutoff)
        sorted == StableSortAsc(files, [i \in DOMAIN files |-> 0 - files[i].mtime])
    IN  SubSeq(sorted, 1, Min(top, Len(sorted)))

\* The summaries pushed for the files read: one for each file with a
\* top-level heading.  The file names of the model carry no date, so the
\* date of a summary is 'Recent'.
Summaries(files) ==
    LET titled == SelectSeq(files, LAMBDA f : f.kind = "titled")
    IN  [i \in DOMAIN titled |-> [date |-> "Recent", title |-> titled[i].title]]

\* readdirSync of a month directory succeeds when the directory exists; it
\* exists when a file is in it.
DirExists(disk, subdir, month) ==
    \E i \in DOMAIN disk : disk[i].subdir = subdir /\ disk[i].month = month

\* The body of the loop over the subdirectories: the current month, or the
\* previous month when the current month's directory cannot be read.
LearningsOf(disk, subdir, cutoff) ==
    IF DirExists(disk, subdir, "current")
    THEN Summaries(RecentFiles(disk, subdir, "current", cutoff, TopCurrent))
    ELSE IF DirExists(disk, subdir, "previous")
    THEN Summaries(RecentFiles(disk, subdir, "previous", cutoff, TopPrevious))
    ELSE <<>>

\* loadRecentLearnings: ALGORITHM, then SYSTEM, cut to MaxLearnings.
loadRecentLearnings(disk, cutoff) ==
    LET learnings == LearningsOf(disk, "ALGORITHM", cutoff) \o LearningsOf(disk, "SYSTEM", cutoff)
    IN  SubSeq(learnings, 1, Min(MaxLearnings, Len(learnings)))

\* The disk holds at most MaxLoaderFiles files, modified at times
\* 1..MaxMtime; the cutoff (`since`, or seven days before now) is one of
\* 0..MaxCutoff.
MaxLoaderFiles == 3
MaxMtime == 3
MaxCutoff == 1

\* The headings of the files, by the order of their creation.
LoaderTitles == [i \in 1..(MaxLoaderFiles + 1) |-> <<"Learning">> \o DigitsOf(i)]

NoLoad == [loaded |-> FALSE, cutoff |-> 0, learnings |-> <<>>]

LoaderIdle ==
    /\ lDisk = <<>>
    /\ lOut = NoLoad

\* A learning file is written under a subdirectory and month: one with a
\* top-level heading, one without, or a sentiment-rating file.
WriteLearningFile ==
    /\ ~lOut.loaded
    /\ Len(lDisk) < MaxLoaderFiles
    /\ \E subdir \in {"ALGORITHM", "SYSTEM"} : \E month \in {"current", "previous"} :
       \E kind \in {"titled", "untitled", "sentiment"} : \E mtime \in 1..MaxMtime :
         lDisk' = Append(lDisk, [subdir |-> subdir, month |-> month, kind |-> kind,
                                 mtime |-> mtime, title |-> LoaderTitles[Len(lDisk) + 1]])
    /\ UNCHANGED <<lOut, synthVars, searchVars, dbVars, stateVars, cliVars, raceVars, metaVars, reportVars>>

\* One call of loadRecentLearnings.
LoadRecentLearnings ==
    /\ ~lOut.loaded
    /\ \E cutoff \in 0..MaxCutoff :
         lOut' = [loaded |-> TRUE, cutoff |-> cutoff,
                  learnings |-> loadRecentLearnings(lDisk, cutoff)]
    /\ UNCHANGED <<lDisk, synthVars, searchVars, dbVars, stateVars, cliVars, raceVars, metaVars, reportVars>>

NextLoader == WriteLearningFile \/ LoadRecentLearnings

-----------------------------------------------------------------------------
(* The specifications                                                      *)

NextSearch == WriteSearchFile \/ ProtectSearchFile \/ Search

NextSynth == AddLearningFile \/ LoadLearnings \/ Synthesize

vars == <<synthVars, searchVars, dbVars, stateVars, cliVars, raceVars, metaVars, reportVars, loaderVars>>

InitSynth == SynthIdle /\ SearchIdle /\ DbIdle /\ StateIdle /\ CliIdle /\ RaceIdle /\ MetaIdle /\ ReportIdle /\ LoaderIdle

SpecSynth == InitSynth /\ [][NextSynth]_vars

InitSearch ==
    /\ SynthIdle
    /\ mDisk = [p \in SamplePaths |-> AbsentFile]
    /\ mTz \in Timezones
    /\ mOut = NoSearch
    /\ DbIdle
    /\ StateIdle
    /\ CliIdle
    /\ RaceIdle /\ MetaIdle /\ ReportIdle /\ LoaderIdle

SpecSearch == InitSearch /\ [][NextSearch]_vars

InitDb == SynthIdle /\ SearchIdle /\ DbIdle /\ StateIdle /\ CliIdle /\ RaceIdle /\ MetaIdle /\ ReportIdle /\ LoaderIdle

SpecDb == InitDb /\ [][NextDb]_vars

InitState ==
    /\ SynthIdle /\ SearchIdle /\ DbIdle
    /\ wFile = NoFile
    /\ iFile = NoFile
    /\ wOut = NoStateOut
    /\ wToday \in Days
    /\ CliIdle
    /\ RaceIdle /\ MetaIdle /\ ReportIdle /\ LoaderIdle

SpecState == InitState /\ [][NextState]_vars

InitCli ==
    /\ SynthIdle /\ SearchIdle /\ DbIdle /\ StateIdle /\ RaceIdle /\ MetaIdle /\ ReportIdle /\ LoaderIdle
    /\ cNow = TimeNow
    /\ cTz \in Timezones
    /\ cCorpus \in SampleCorpora
    /\ cReports = {}
    /\ cIndex = NoFile
    /\ cOut = NoCliOut

SpecCli == InitCli /\ [][NextCli]_vars

InitMeta ==
    /\ SynthIdle /\ SearchIdle /\ DbIdle /\ StateIdle /\ CliIdle /\ RaceIdle /\ ReportIdle /\ LoaderIdle
    /\ eIn \in MetaInputs
    /\ eOut = NoMemory

SpecMeta == InitMeta /\ [][NextMeta]_vars

InitRace == SynthIdle /\ SearchIdle /\ DbIdle /\ StateIdle /\ CliIdle /\ RaceIdle /\ MetaIdle /\ ReportIdle /\ LoaderIdle

SpecRace == InitRace /\ [][NextRace]_vars

InitReport ==
    /\ SynthIdle /\ SearchIdle /\ DbIdle /\ StateIdle /\ CliIdle /\ RaceIdle /\ MetaIdle
    /\ LoaderIdle
    /\ gResult \in ReportResults
    /\ gClock = 0
    /\ gReports = <<>>

SpecReport == InitReport /\ [][NextReport]_vars

InitLoader ==
    /\ SynthIdle /\ SearchIdle /\ DbIdle /\ StateIdle /\ CliIdle /\ RaceIdle /\ MetaIdle
    /\ ReportIdle /\ LoaderIdle

SpecLoader == InitLoader /\ [][NextLoader]_vars

-----------------------------------------------------------------------------
(* Claims about the synthesis run                                          *)

\* The keywords extracted from the loaded learnings.
LoadedKeywords == UNION {Range(KeywordsOf[sLearnings[i].content]) : i \in DOMAIN sLearnings}

\* The number of distinct learnings (by path) whose extracted keywords
\* contain the keyword.
DistinctCount(keyword) ==
    Cardinality({sLearnings[i].path :
                   i \in {j \in DOMAIN sLearnings :
                            keyword \in Range(KeywordsOf[sLearnings[j].content])}})

\* The patterns of the result with the given theme and occurrences.
PatternsOf(theme, n) ==
    {i \in DOMAIN sResult.patterns :
        sResult.patterns[i].theme = theme /\ sResult.patterns[i].occurrences = n}

\* C1: identifyPatterns emits a pattern for a keyword if and only if the
\* number of distinct learnings whose extracted keywords contain it is at
\* least 3, with occurrences equal to that number: for every theme and every
\* count, the result holds as many patterns of that theme and count as there
\* are keywords of that theme (the keyword without its #) found in that many
\* learnings, and none for a count below 3.
Thm_C1_KeywordThreshold ==
    sPc = "done" =>
        /\ \A i \in DOMAIN sResult.patterns :
             \E k \in LoadedKeywords : StripHash(k) = sResult.patterns[i].theme
        /\ \A k \in LoadedKeywords : \A n \in 0..Len(sLearnings) :
             Cardinality(PatternsOf(StripHash(k), n)) =
             Cardinality({k2 \in LoadedKeywords :
                            /\ StripHash(k2) = StripHash(k)
                            /\ DistinctCount(k2) = n
                            /\ n >= 3})

\* C1 witness: a finished run in which one keyword is found in exactly 2
\* learnings and has no pattern, and another in exactly 3 and has one with
\* occurrences 3.
Wit_C1_TwoAndThree ==
    /\ sPc = "done"
    /\ \E k \in LoadedKeywords :
         /\ DistinctCount(k) = 2
         /\ \A i \in DOMAIN sResult.patterns : sResult.patterns[i].theme # StripHash(k)
    /\ \E k \in LoadedKeywords :
         /\ DistinctCount(k) = 3
         /\ PatternsOf(StripHash(k), 3) # {}

\* The members of a pattern that carry a rating, whatever its value.
RatedMembers(pattern) == SelectSeq(pattern.learnings, LAMBDA l : l.rating # NoRating)

\* C2: the rules of generateInsight are applied in order, first match wins:
\* a pattern with at least one rated member whose mean rating is below 5
\* carries the low-rating message, even for a theme containing bug, fix or
\* error; any other pattern carries the bug message if its theme contains
\* bug, fix or error, else the refactor message if it contains refactor or
\* optimize, else the generic message.
Cex_C2_InsightPrecedence ==
    sPc = "done" =>
        \A i \in DOMAIN sResult.patterns :
            LET pattern == sResult.patterns[i]
                rated == RatedMembers(pattern)
                sum == SumSeq([j \in DOMAIN rated |-> rated[j].rating])
            IN  IF Len(rated) > 0 /\ sum < 5 * Len(rated)
                THEN pattern.insight[1] = LowRatingInsight(0)[1]
                ELSE IF BugRule(pattern.theme) THEN pattern.insight = BugInsight
                ELSE IF RefactorRule(pattern.theme) THEN pattern.insight = RefactorInsight
                ELSE pattern.insight = GenericInsight(pattern.occurrences)

HashBug == <<"#","b","u","g">>

\* The learnings whose content holds the hashtag #bug.
TaggedBug == {i \in DOMAIN sLearnings : HashBug \in Range(MatchHashtags(sLearnings[i].content, 1))}

\* C3: for 5 learnings of which exactly 3 hold the hashtag #bug, none rated,
\* and no other theme shared by 3 or more (the term bug is found in the same
\* 3 learnings only), synthesize returns exactly one pattern, of theme bug and
\* occurrences 3, with the bug message, and no low ratings.
Cex_C3_EndToEndBugScenario ==
    ( /\ sPc = "done"
      /\ Len(sLearnings) = 5
      /\ Cardinality(TaggedBug) = 3
      /\ \A i \in DOMAIN sLearnings : sLearnings[i].rating = NoRating
      /\ \A k \in LoadedKeywords : StripHash(k) # StripHash(HashBug) => DistinctCount(k) < 3
      /\ DistinctCount(StripHash(HashBug)) = 3 )
    => /\ Len(sResult.patterns) = 1
       /\ sResult.patterns[1].theme = StripHash(HashBug)
       /\ sResult.patterns[1].occurrences = 3
       /\ sResult.patterns[1].insight = BugInsight
       /\ sResult.lowRatings = <<>>

\* The keywords that 3 or more distinct learnings carry.
KeptKeywords == {k \in LoadedKeywords : DistinctCount(k) >= 3}

\* The position at which a keyword is first encountered when the keywords of
\* the learnings are read in order.
FirstSeen(keyword) ==
    Leftmost({n \in DOMAIN Concat([i \in DOMAIN sLearnings |-> KeywordsOf[sLearnings[i].content]]) :
                Concat([i \in DOMAIN sLearnings |-> KeywordsOf[sLearnings[i].content]])[n] = keyword})

\* Whether keyword a comes before keyword b in the claimed order: more
\* distinct learnings first, of equal counts the one encountered first.
ClaimedBefore(a, b) ==
    \/ DistinctCount(a) > DistinctCount(b)
    \/ DistinctCount(a) = DistinctCount(b) /\ FirstSeen(a) < FirstSeen(b)

\* C17: a second run over the same learnings gives the same pattern list,
\* and the list holds one pattern per kept keyword, ordered by distinct
\* document count descending and, of equal counts, by first encounter.
Thm_C17_GroupingDeterminism ==
    sPc = "done" =>
        /\ synthesize(sLearnings) = sResult
        /\ Len(sResult.patterns) = Cardinality(KeptKeywords)
        /\ \E k \in [DOMAIN sResult.patterns -> KeptKeywords] :
             /\ \A i, j \in DOMAIN k : i < j => ClaimedBefore(k[i], k[j])
             /\ \A i \in DOMAIN k :
                  /\ sResult.patterns[i].theme = StripHash(k[i])
                  /\ sResult.patterns[i].occurrences = DistinctCount(k[i])
                  /\ sResult.patterns[i].insight =
                       generateInsight(k[i], sResult.patterns[i].learnings)

\* C17 witness: a keyword encountered later but carried by more learnings
\* stands before the keyword encountered first.
Wit_C17_CountBeforeEncounter ==
    /\ sPc = "done"
    /\ Len(sResult.patterns) = 2
    /\ sResult.patterns[1].occurrences > sResult.patterns[2].occurrences
    /\ \E a, b \in KeptKeywords :
         /\ FirstSeen(a) < FirstSeen(b)
         /\ DistinctCount(b) = sResult.patterns[1].occurrences
         /\ DistinctCount(a) = sResult.patterns[2].occurrences

\* C23: the low-ratings list of the result is exactly the loaded learnings
\* whose extracted rating is at most 3, in load order; a learning with no
\* rating or a rating above 3 is not listed.
Cex_C23_LowRatingsList ==
    sPc = "done" =>
        sResult.lowRatings =
            SelectSeq(sLearnings,
                      LAMBDA l : extractRating(l.content) # NoRating
                                 /\ extractRating(l.content) <= 3)

-----------------------------------------------------------------------------
(* Claims about the linear search                                          *)

\* The number of matches of the query over all lines of a text.
TotalMatches(text, query) ==
    LET lines == Split(text, "\n")
    IN  SumSeq([i \in DOMAIN lines |-> MatchCount(lines[i], query, 0)])

\* The files the search scans: on disk, of the type asked for, not excluded
\* by the date filter.
Scanned(p) ==
    /\ mDisk[p].exists
    /\ mOut.type = "" \/ TypeOf(p) = mOut.type
    /\ ~(mOut.since # <<>> /\ DateOf[p][mTz] # NullDate /\ DateOf[p][mTz] < DateFromISO(mOut.since))

ResultPaths == {mOut.results[i].filePath : i \in DOMAIN mOut.results}

\* C5: in the linear search a document's score is the total number of
\* matches of the query over all of its lines, wherever the matching lines
\* are placed: every scanned, readable file with a match is in the results
\* with that total as its score (3 for a line with two matches and a line
\* with one).
Cex_C5_ScoreIsTotalMatches ==
    mOut # NoSearch =>
        \A p \in SamplePaths :
            (Scanned(p) /\ mDisk[p].readable /\ TotalMatches(mDisk[p].content, mOut.query) > 0)
            => \E i \in DOMAIN mOut.results :
                 /\ mOut.results[i].filePath = p
                 /\ mOut.results[i].score = TotalMatches(mDisk[p].content, mOut.query)

\* C6: with a --since cutoff, a file for which extractDate resolves no date
\* is never excluded by the date filter: whenever it is of the type asked
\* for, readable and has a match, it is in the results, for every cutoff.
Thm_C6_UndatedPassesSince ==
    (mOut # NoSearch /\ mOut.since # <<>>) =>
        \A p \in SamplePaths :
            ( /\ mDisk[p].exists /\ mDisk[p].readable
              /\ mOut.type = "" \/ TypeOf(p) = mOut.type
              /\ extractDate(p, mTz) = NullDate
              /\ TotalMatches(mDisk[p].content, mOut.query) > 0 )
            => p \in ResultPaths

\* C6 witness: a search with a cutoff that excludes a dated file with a match
\* and returns an undated one.
Wit_C6_UndatedReturned ==
    /\ mOut # NoSearch
    /\ mOut.since # <<>>
    /\ \E p \in ResultPaths : extractDate(p, mTz) = NullDate
    /\ \E p \in SamplePaths :
         /\ mDisk[p].exists /\ mDisk[p].readable
         /\ TotalMatches(mDisk[p].content, mOut.query) > 0
         /\ extractDate(p, mTz) # NullDate
         /\ p \notin ResultPaths

\* The numbers of the lines of a content that contain a match of the query.
MatchingLines(content, query) ==
    {n \in DOMAIN Split(content, "\n") : MatchCount(Split(content, "\n")[n], query, 0) > 0}

\* Whether the match contexts are those of the lines of numbers `expected`
\* of the content, one each, in line order, each with the up to
\* CONTEXT_LINES lines before and after its line.
ContextsOf(matches, content, expected) ==
    /\ Len(matches) = Cardinality(expected)
    /\ \A k \in DOMAIN matches :
         /\ matches[k].lineNumber \in expected
         /\ k > 1 => matches[k - 1].lineNumber < matches[k].lineNumber
         /\ matches[k].matchLine = Split(content, "\n")[matches[k].lineNumber]
         /\ matches[k].before =
              SubSeq(Split(content, "\n"),
                     Max(1, matches[k].lineNumber - 3), matches[k].lineNumber - 1)
         /\ matches[k].after =
              SubSeq(Split(content, "\n"), matches[k].lineNumber + 1,
                     Min(Len(Split(content, "\n")), matches[k].lineNumber + 3))

\* C20: a scanned, readable file gets exactly one match context for every
\* line that contains a match of the query, in line order, whatever matched
\* before, each with the up to 3 lines before and after, clipped at the ends
\* of the file.
Cex_C20_ContextPerMatchingLine ==
    mOut # NoSearch =>
        \A p \in SamplePaths :
            (Scanned(p) /\ mDisk[p].readable /\ MatchingLines(mDisk[p].content, mOut.query) # {})
            => \E i \in DOMAIN mOut.results :
                 /\ mOut.results[i].filePath = p
                 /\ ContextsOf(mOut.results[i].matches, mDisk[p].content,
                               MatchingLines(mDisk[p].content, mOut.query))

\* The place of a path in the order of discovery of the run.
Discovered(p) == CHOOSE k \in DOMAIN mOut.files : mOut.files[k] = p

\* C21: the search returns exactly the scanned files that have at least one
\* match, each once, sorted by score descending; results of equal score are
\* in the order of their discovery, which is WORK files, then ALGORITHM,
\* then SYSTEM.
Thm_C21_ResultsSortedStable ==
    mOut # NoSearch =>
        /\ ResultPaths = {p \in SamplePaths :
                            /\ Scanned(p)
                            /\ mDisk[p].readable
                            /\ MatchingLines(mDisk[p].content, mOut.query) # {}}
        /\ Len(mOut.results) = Cardinality(ResultPaths)
        /\ \A i, j \in DOMAIN mOut.results :
             i < j =>
               /\ mOut.results[i].score >= mOut.results[j].score
               /\ mOut.results[i].score = mOut.results[j].score
                    => /\ Discovered(mOut.results[i].filePath)
                            < Discovered(mOut.results[j].filePath)
                       /\ TypeRank(mOut.results[i].type) <= TypeRank(mOut.results[j].type)

\* C21 witness: a search over at least three files with a match, in which a
\* file discovered later comes first because it scores more, and two files
\* of one tree with the same score were enumerated in the reverse order of
\* their names.
Wit_C21_TieKeepsDiscovery ==
    /\ mOut # NoSearch
    /\ Len(mOut.results) >= 3
    /\ \E i, j \in DOMAIN mOut.results :
         /\ i < j
         /\ mOut.results[i].score > mOut.results[j].score
         /\ Discovered(mOut.results[i].filePath) > Discovered(mOut.results[j].filePath)
    /\ \E i, j \in DOMAIN mOut.results :
         /\ i < j
         /\ mOut.results[i].score = mOut.results[j].score
         /\ mOut.results[i].filePath = PathSysUndated
         /\ mOut.results[j].filePath = PathSysMonth

\* The calendar date a path carries, as YYYY-MM-DD: that of the WORK
\* directory name, or that prefixed to a learning file; <<>> when neither.
CarriedDate(p) ==
    IF WorkMatch(p) > 0
    THEN SubSeq(p, WorkMatch(p), WorkMatch(p) + 3) \o <<"-">>
         \o SubSeq(p, WorkMatch(p) + 4, WorkMatch(p) + 5) \o <<"-">>
         \o SubSeq(p, WorkMatch(p) + 6, WorkMatch(p) + 7)
    ELSE IF LearningMatch(p) > 0
    THEN SubSeq(p, LearningMatch(p), LearningMatch(p) + 9)
    ELSE <<>>

\* C22: with a --since cutoff date D, a document whose path carries the date
\* D itself (a WORK directory named with D, or a learning file prefixed with
\* D) is not excluded, in every time zone of the process: when it is of the
\* type asked for, readable and has a matching line, it is in the results.
Cex_C22_CutoffDateIncluded ==
    (mOut # NoSearch /\ mOut.since # <<>>) =>
        \A p \in SamplePaths :
            ( /\ mDisk[p].exists /\ mDisk[p].readable
              /\ mOut.type = "" \/ TypeOf(p) = mOut.type
              /\ CarriedDate(p) = mOut.since
              /\ MatchingLines(mDisk[p].content, mOut.query) # {} )
            => p \in ResultPaths

-----------------------------------------------------------------------------
(* Claims about the database                                               *)

\* The rows of the store with an id.
RowsWithId(id) == {i \in DOMAIN dDb.memories : dDb.memories[i].id = id}

\* Whether insert k of the last sync is the most recent one with its id.
MostRecent(k) ==
    \A j \in DOMAIN dOut.inserted : j > k => dOut.inserted[j].id # dOut.inserted[k].id

\* C4: insertMemory is an upsert keyed by id.  The store never holds two
\* records with one id; after the inserts of a sync, the record of each id
\* inserted has the timestamp, type, topic, content, rating, tags, file_path,
\* importance and stability of the most recent insert with that id; and
\* inserting the most recent memory once more leaves the store as it is.
Thm_C4_InsertIsUpsert ==
    /\ \A i, j \in DOMAIN dDb.memories : i # j => dDb.memories[i].id # dDb.memories[j].id
    /\ dOut.cmd = "sync" =>
         \A k \in DOMAIN dOut.inserted :
            MostRecent(k) =>
               /\ Cardinality(RowsWithId(dOut.inserted[k].id)) = 1
               /\ \A i \in RowsWithId(dOut.inserted[k].id) :
                    /\ dDb.memories[i].timestamp = dOut.inserted[k].timestamp
                    /\ dDb.memories[i].type = dOut.inserted[k].type
                    /\ dDb.memories[i].topic = dOut.inserted[k].topic
                    /\ dDb.memories[i].content = dOut.inserted[k].content
                    /\ dDb.memories[i].rating = dOut.inserted[k].rating
                    /\ dDb.memories[i].tags = dOut.inserted[k].tags
                    /\ dDb.memories[i].file_path = dOut.inserted[k].file_path
                    /\ dDb.memories[i].importance = dOut.inserted[k].importance
                    /\ dDb.memories[i].stability = dOut.inserted[k].stability
               /\ insertMemory(dDb, dOut.inserted[k]).memories = dDb.memories

\* C4 witness: a sync that inserted two memories with one id and different
\* contents and paths; the store holds the one record of the second insert.
Wit_C4_SecondInsertWins ==
    /\ dOut.cmd = "sync"
    /\ \E j, k \in DOMAIN dOut.inserted :
         /\ j < k
         /\ MostRecent(k)
         /\ dOut.inserted[j].id = dOut.inserted[k].id
         /\ dOut.inserted[j].content # dOut.inserted[k].content
         /\ dOut.inserted[j].file_path # dOut.inserted[k].file_path
         /\ \E i \in RowsWithId(dOut.inserted[k].id) :
              /\ dDb.memories[i].content = dOut.inserted[k].content
              /\ dDb.memories[i].file_path = dOut.inserted[k].file_path
         /\ Cardinality(RowsWithId(dOut.inserted[k].id)) = 1

\* Whether the index entry of some row that equals the record holds every
\* word of the query.
MatchesQuery(row, query) ==
    \E i \in DOMAIN dDb.memories :
        /\ dDb.memories[i] = row
        /\ Tokenize(query, 1) \subseteq dDb.memories_fts[i]

\* C7: searchMemories returns at most `limit` records, each a record of the
\* store that the index matches with the query, none twice, ordered by rank;
\* records of equal rank are ordered by importance descending, and those of
\* equal rank and importance by timestamp descending.
Thm_C7_SearchOrder ==
    dOut.cmd = "search" =>
        /\ Len(dOut.results) <= dOut.limit
        /\ \A i \in DOMAIN dOut.results : MatchesQuery(dOut.results[i].row, dOut.query)
        /\ \A i, j \in DOMAIN dOut.results :
             i < j =>
               /\ dOut.results[i].row.id # dOut.results[j].row.id
               /\ dOut.results[i].rank <= dOut.results[j].rank
               /\ dOut.results[i].rank = dOut.results[j].rank =>
                    dOut.results[i].row.importance >= dOut.results[j].row.importance
               /\ ( /\ dOut.results[i].rank = dOut.results[j].rank
                    /\ dOut.results[i].row.importance = dOut.results[j].row.importance )
                  => ~TextLess(dOut.results[i].row.timestamp, dOut.results[j].row.timestamp)

\* C7 witness: a search that returns two records of equal rank, the first of
\* importance 5, the second of importance 3 with a later timestamp.
Wit_C7_ImportanceBeforeRecency ==
    /\ dOut.cmd = "search"
    /\ Len(dOut.results) = 2
    /\ dOut.results[1].rank = dOut.results[2].rank
    /\ dOut.results[1].row.importance = 5
    /\ dOut.results[2].row.importance = 3
    /\ TextLess(dOut.results[1].row.timestamp, dOut.results[2].row.timestamp)

\* C8: every two distinct source files visited by a sync are given distinct
\* record ids, so that the store holds a record for each file read.
Cex_C8_DistinctFilesDistinctIds ==
    dOut.cmd = "sync" =>
        /\ \A i, j \in DOMAIN dOut.visited :
             i # j => dOut.visited[i].id # dOut.visited[j].id
        /\ Len(dDb.memories) >= Len(dOut.visited)

\* C9: a file that cannot be read is skipped and the batch completes: a sync
\* never throws, and it visits every readable file of the disk.
Cex_C9_UnreadableSkipped ==
    dOut.cmd = "sync" =>
        /\ dOut.ok
        /\ \A f \in DbFiles :
             (dDisk[f].exists /\ dDisk[f].readable) =>
                \E i \in DOMAIN dOut.visited :
                    dOut.visited[i].tree = f.tree /\ dOut.visited[i].file = f.file

\* The ids of the rows of a database.
IdsOf(db) == {db.memories[i].id : i \in DOMAIN db.memories}

\* The file of the sample disk that a row was read from.
BackingFile(row) ==
    CHOOSE f \in DbFiles : MemoryTable[f][DocNotes].file_path = row.file_path

\* C25: records are never deleted automatically: no step, a sync after the
\* removal of files included, makes the set of record ids smaller, and a
\* record whose backing file is gone from disk keeps the field values of its
\* last sync.
Cex_C25_RecordsNeverDeleted ==
    [][ /\ IdsOf(dDb) \subseteq IdsOf(dDb')
        /\ \A i \in DOMAIN dDb.memories :
             ~dDisk[BackingFile(dDb.memories[i])].exists
             => \E j \in DOMAIN dDb'.memories : dDb'.memories[j] = dDb.memories[i] ]_vars

-----------------------------------------------------------------------------
(* Claims about the state documents                                        *)

\* A document that is missing or is not valid JSON.
Unusable(file) ==
    \/ ~file.exists
    \/ file.text = RawText(<<>>)
    \/ file.text = RawText(RawTruncated)

\* The default state of day today, written out.
FreshState(today) ==
    [has            |-> {"activeProjects", "lastSession", "openItems", "lastUpdated"},
     activeProjects |-> <<>>,
     lastSession    |-> [date |-> today, summary |-> "No previous session", nextSteps |-> <<>>],
     openItems      |-> <<>>,
     lastUpdated    |-> today]

\* The default state of day today plus the change of an operation.
FreshStatePlus(op, today) ==
    CASE op = "add-item" ->
           {[FreshState(today) EXCEPT !.openItems =
                <<[description |-> d, priority |-> p, createdAt |-> today]>>] :
              d \in SampleDescriptions, p \in {"medium", "high"}}
      [] op = "add-project" ->
           {[FreshState(today) EXCEPT !.activeProjects = <<n>>] : n \in SampleProjects}
      [] op = "update-session" ->
           {[FreshState(today) EXCEPT !.lastSession =
                [date |-> today, summary |-> "Built phase 2",
                 nextSteps |-> <<"Test integration">>]]}
      [] OTHER -> {FreshState(today)}

\* The default index plus the week of a result.
FreshIndexPlus(result) ==
    [has      |-> {"weeks", "patterns"},
     weeks    |-> <<[start |-> result.weekStart, end |-> result.weekEnd,
                     learnings |-> result.totalLearnings, patterns |-> Len(result.patterns),
                     file |-> <<"M","E","M","O","R","Y","/","L","E","A","R","N","I","N","G","/",
                                "S","Y","N","T","H","E","S","I","S","/","w",".","m","d">>]>>,
     patterns |-> [i \in DOMAIN result.patterns |->
                     [theme |-> result.patterns[i].theme,
                      count |-> result.patterns[i].occurrences,
                      weeks |-> <<result.weekStart>>]]]

\* C10: an operation that finds its state document missing or not valid JSON
\* completes from the default state.  Reading (show) leaves the file as it
\* is and yields the default state; a state-changing operation writes the
\* default state plus its change in place of the file; updateMemoryIndex
\* writes the default index plus its week.
Thm_C10_CorruptStateIsAbsent ==
    [][ /\ ( /\ Unusable(wFile)
             /\ wOut'.op \in {"show", "add-item", "add-project", "update-session",
                              "remove-project", "clear-item"} )
           => /\ wOut'.ok
              /\ wOut'.op = "show" =>
                   /\ wFile' = wFile
                   /\ wOut'.state = FreshState(wToday)
              /\ wOut'.op # "show" =>
                   \E doc \in FreshStatePlus(wOut'.op, wToday) :
                      wFile' = [exists |-> TRUE,
                                text |-> [rendered |-> TRUE, raw |-> <<>>, value |-> doc]]
        /\ (Unusable(iFile) /\ wOut'.op = "update-index")
           => /\ wOut'.ok
              /\ \E result \in SampleResults :
                   iFile' = [exists |-> TRUE,
                             text |-> [rendered |-> TRUE, raw |-> <<>>,
                                       value |-> FreshIndexPlus(result)]]
      ]_vars

\* C10 witness: add-item found session-continuity.json to be no valid JSON
\* and completed; the file now holds a state with the one new item and
\* nothing else.
Wit_C10_CorruptReplaced ==
    /\ wOut.op = "add-item"
    /\ wOut.found = "corrupt"
    /\ wOut.ok
    /\ wFile.exists /\ wFile.text.rendered
    /\ Len(wFile.text.value.openItems) = 1
    /\ wFile.text.value.activeProjects = <<>>

\* C15: after the command line `remove-project <name>` the state's
\* activeProjects does not contain the name, and after `clear-item
\* <description>` its openItems holds no item with that description.
Cex_C15_RemovalCommands ==
    wOut.op = "usage" /\ wFile.exists /\ wFile.text.rendered =>
        /\ wOut.command[1] = "remove-project" =>
               wOut.command[2] \notin Range(wFile.text.value.activeProjects)
        /\ wOut.command[1] = "clear-item" =>
               \A i \in DOMAIN wFile.text.value.openItems :
                   wFile.text.value.openItems[i].description # wOut.command[2]

\* The activeProjects of the state document; none when there is no parsed
\* document.
ProjectsIn(file) ==
    IF file.exists /\ file.text.rendered THEN file.text.value.activeProjects ELSE <<>>

NoDuplicates(xs) == \A i, j \in DOMAIN xs : xs[i] = xs[j] => i = j

\* C26: activeProjects stays free of duplicates over every sequence of
\* addActiveProject and removeActiveProject; addActiveProject of a project
\* that is present leaves the file as it is, lastUpdated included, and of a
\* new one appends it; removeActiveProject removes the project and keeps the
\* others in order.
Thm_C26_ProjectsNoDuplicates ==
    [][ /\ NoDuplicates(ProjectsIn(wFile)) => NoDuplicates(ProjectsIn(wFile'))
        /\ (wOut'.op = "add-project" /\ wOut'.ok)
             => IF wOut'.arg \in Range(ProjectsIn(wFile))
                THEN wFile' = wFile
                ELSE ProjectsIn(wFile') = Append(ProjectsIn(wFile), wOut'.arg)
        /\ (wOut'.op = "remove-project" /\ wOut'.ok)
             => ProjectsIn(wFile') = SelectSeq(ProjectsIn(wFile), LAMBDA p : p # wOut'.arg)
      ]_vars

\* C26 witness: addActiveProject of a project that is present, among two,
\* has run on a day after the last save, and lastUpdated is still the
\* earlier day.
Wit_C26_PresentProjectNotSaved ==
    /\ wOut.op = "add-project"
    /\ wOut.ok
    /\ Len(ProjectsIn(wFile)) = 2
    /\ wOut.arg \in Range(ProjectsIn(wFile))
    /\ wFile.text.value.lastUpdated < wToday

\* C28: every state-changing operation (addOpenItem, addActiveProject,
\* removeActiveProject, clearOpenItem, updateLastSession) completes on every
\* state document, one without activeProjects or openItems such as '{}'
\* included, and the state that getCurrentWorkState returns always has both
\* lists.
Cex_C28_OperationsComplete ==
    /\ wOut.op \in {"add-item", "add-project", "remove-project", "clear-item", "update-session"}
         => wOut.ok
    /\ wOut.op = "show" => {"activeProjects", "openItems"} \subseteq wOut.state.has

-----------------------------------------------------------------------------
(* Claims about the command lines                                          *)

\* Whether the invocation was given a malformed input: an --since or --date
\* value that is no date, an unknown --type value, or no query.
Malformed(out) ==
    \/ /\ out.tool = "MemorySearch"
       /\ out.args \in { <<<<>>>>, <<<<"a","b">>, <<"-","-","t","y","p","e">>, <<"f","o","o">>>>,
                         <<<<"a","b">>, <<"-","-","s","i","n","c","e">>, <<"2","0","2","6","-","1","3","-","4","5">>>>,
                         <<<<"a","b">>, <<"-","-","s","i","n","c","e">>, <<"g","a","r","b","a","g","e">>>> }
    \/ /\ out.tool = "WeeklySynthesis"
       /\ out.args \in { <<<<"-","-","d","a","t","e","=","g","a","r","b","a","g","e">>>>, <<<<"-","-","d","a","t","e","=","2","0","2","6","-","1","3","-","4","5">>>> }
    \/ /\ out.tool = "MemoryDatabase"
       /\ out.args \in { <<<<"s","e","a","r","c","h">>>>, <<<<"s","e","a","r","c","h">>, <<>>>> }

\* C11: an invocation with a malformed input reports an error, ends with a
\* non-zero status and neither searches nor synthesizes.  WeeklySynthesis
\* with --date=garbage reports nothing and ends with status 0.
Cex_C11_MalformedInputFails ==
    Malformed(cOut) => cOut.exit # 0 /\ cOut.error # "" /\ ~cOut.ran

\* The week records and the theme entries of an index file; none when the
\* file is missing.
WeeksOf(file) == IF file.exists THEN file.text.value.weeks ELSE <<>>
ThemesOf(file) == IF file.exists THEN file.text.value.patterns ELSE <<>>

\* Whether sequence a is the beginning of sequence b.
IsPrefix(a, b) == Len(a) <= Len(b) /\ SubSeq(b, 1, Len(a)) = a

\* Whether every theme entry of before is in after with a count that is not
\* smaller and a list of weeks that continues its own.
ThemesGrow(before, after) ==
    \A i \in DOMAIN before : \E j \in DOMAIN after :
        /\ after[j].theme = before[i].theme
        /\ after[j].count >= before[i].count
        /\ IsPrefix(before[i].weeks, after[j].weeks)

\* C12: over the runs of the synthesis, a run that writes its report appends
\* exactly one week record to the index and keeps the earlier records in
\* order, no other run changes the index, and no theme's count decreases or
\* list of weeks loses an element.
Thm_C12_IndexAppendOnly ==
    [][/\ cOut'.tool = "WeeklySynthesis" /\ cOut'.wrote =>
            /\ Len(WeeksOf(cIndex')) = Len(WeeksOf(cIndex)) + 1
            /\ IsPrefix(WeeksOf(cIndex), WeeksOf(cIndex'))
            /\ WeeksOf(cIndex')[Len(WeeksOf(cIndex'))].start = cOut'.weekStart
       /\ ~(cOut'.tool = "WeeklySynthesis" /\ cOut'.wrote) => cIndex' = cIndex
       /\ ThemesGrow(ThemesOf(cIndex), ThemesOf(cIndex'))]_vars

\* C12 witness: the index after two runs over different weeks, the first
\* week's record still first and the theme bug counted in both weeks.
Wit_C12_SecondWeekAppended ==
    /\ cIndex.exists
    /\ Len(WeeksOf(cIndex)) = 2
    /\ WeeksOf(cIndex)[1].start # WeeksOf(cIndex)[2].start
    /\ cOut.wrote /\ WeeksOf(cIndex)[2].start = cOut.weekStart
    /\ \E j \in DOMAIN ThemesOf(cIndex) :
         /\ ThemesOf(cIndex)[j].theme = <<"b","u","g">>
         /\ {WeeksOf(cIndex)[1].start, WeeksOf(cIndex)[2].start}
              \subseteq Range(ThemesOf(cIndex)[j].weeks)

\* Whether the arguments of an invocation contain --dry-run.
HasDryRunFlag(out) == \E i \in DOMAIN out.args : out.args[i] = <<"-","-","d","r","y","-","r","u","n">>

\* C14: a run of WeeklySynthesis with --dry-run writes no report file and
\* leaves memory-index.json as it was.
Thm_C14_DryRunWritesNothing ==
    [][cOut'.tool = "WeeklySynthesis" /\ HasDryRunFlag(cOut') =>
           cReports' = cReports /\ cIndex' = cIndex]_vars

\* C14 witness: a dry run found learnings and synthesized them, and there is
\* still no report and no index.
Wit_C14_PreviewOnly ==
    /\ cOut.tool = "WeeklySynthesis" /\ HasDryRunFlag(cOut)
    /\ cOut.ran /\ cOut.learnings = 3
    /\ cReports = {} /\ ~cIndex.exists

\* C16: a run given --date and a date as two arguments analyses the week
\* that ends at that date and names its report after it.
Cex_C16_SeparateDateArgument ==
    cOut.tool = "WeeklySynthesis" /\ cOut.args = <<<<"-","-","d","a","t","e">>, <<"2","0","2","6","-","0","2","-","0","1">>>> =>
        /\ cOut.weekStart = <<"2","0","2","6","-","0","1","-","2","5">>
        /\ cOut.weekEnd = <<"2","0","2","6","-","0","2","-","0","1">>
        /\ cOut.wrote => ReportPath(<<"2","0","2","6","-","0","2","-","0","1">>) \in cReports

\* The cumulative count and the weeks of a theme in an index file; 0 and
\* none when the index has no entry for it.
CountOf(file, theme) ==
    IF \E j \in DOMAIN ThemesOf(file) : ThemesOf(file)[j].theme = theme
    THEN ThemesOf(file)[CHOOSE j \in DOMAIN ThemesOf(file) : ThemesOf(file)[j].theme = theme].count
    ELSE 0
ThemeWeeksOf(file, theme) ==
    IF \E j \in DOMAIN ThemesOf(file) : ThemesOf(file)[j].theme = theme
    THEN ThemesOf(file)[CHOOSE j \in DOMAIN ThemesOf(file) : ThemesOf(file)[j].theme = theme].weeks
    ELSE <<>>

\* The themes of a learning: its keywords without their leading '#'.
ThemesOfContent(content) == {StripHash(k) : k \in Range(extractKeywords(content))}

\* C27: after a run that writes its report, for every theme of the result
\* the index's count has grown by exactly the number of distinct learnings
\* of the theme in the run, and the run's week-start has been appended to
\* the theme's weeks exactly once.  (Every learning of the sample corpora is
\* '#bug', so the learnings of a theme of the run are all those loaded.)
Cex_C27_ThemeCountedOnce ==
    [][ (cOut'.tool = "WeeklySynthesis" /\ cOut'.wrote) =>
          \A theme \in ThemesOfContent(ContentBug) :
              /\ CountOf(cIndex', theme) = CountOf(cIndex, theme) + cOut'.learnings
              /\ ThemeWeeksOf(cIndex', theme)
                   = Append(ThemeWeeksOf(cIndex, theme), cOut'.weekStart) ]_vars

\* C29: the report is written before the index is updated: in every state
\* each week record of memory-index.json names a report file that was
\* written, also after runs that failed to write their report; and a run
\* that loads no learnings writes no report and leaves the index as it was.
Thm_C29_ReportBeforeIndex ==
    [][ /\ \A k \in DOMAIN WeeksOf(cIndex') :
             (PAI_HOME \o <<"/">> \o WeeksOf(cIndex')[k].file) \in cReports'
        /\ (cOut'.tool = "WeeklySynthesis" /\ ~cOut'.ran)
             => cReports' = cReports /\ cIndex' = cIndex ]_vars

\* C29 witness: after a run that wrote its report and its week record, a
\* run for another week found learnings and could not write its report: the
\* index still holds the one record, of the report that exists.
Wit_C29_FailedWriteLeavesIndex ==
    /\ cOut.tool = "WeeklySynthesis"
    /\ cOut.ran /\ ~cOut.wrote /\ cOut.exit = 1
    /\ Len(WeeksOf(cIndex)) = 1
    /\ WeeksOf(cIndex)[1].start # cOut.weekStart
    /\ ReportPath(cOut.weekEnd) \notin cReports

-----------------------------------------------------------------------------
(* Claims about two processes                                              *)

\* The writes to a document so far, in order.
WritesTo(doc) == SelectSeq(rLast, LAMBDA w : w.op.doc = doc)

\* C13: each JSON document is exactly the in-memory copy of the process that
\* wrote it last, whatever the other process wrote before.
Thm_C13_LastWriterWins ==
    \A doc \in {"state", "index"} :
        IF WritesTo(doc) = <<>> THEN rFile[doc] = NoFile
        ELSE rFile[doc] = FileOf(TextOf(doc, WritesTo(doc)[Len(WritesTo(doc))].copy, wToday))

\* C13 witness: two processes added two different items and both wrote, and
\* the document holds only the item of the one that wrote last.
Wit_C13_LostUpdate ==
    /\ Len(rLast) = 2
    /\ rLast[1].op.name = "add-item" /\ rLast[2].op.name = "add-item"
    /\ rLast[1].proc # rLast[2].proc
    /\ rLast[1].op.description # rLast[2].op.description
    /\ rFile.state.exists
    /\ Len(rFile.state.text.value.openItems) = 1
    /\ rFile.state.text.value.openItems[1].description = rLast[2].op.description

-----------------------------------------------------------------------------
(* Claims about the record of one file                                     *)

\* The rating extracted from the file read.
ExtractedRating == extractRating(eIn.content)

\* C18: the importance of the record is 5 for an extracted rating of at
\* least 8, 4 for at least 6, 3 for at least 4, 2 for a lower rating, and
\* without a rating the default of the category: 3 for a WORK session, 4 for
\* an ALGORITHM or SYSTEM learning.
Cex_C18_ImportanceFromRating ==
    eOut # NoMemory =>
        eOut.importance =
            IF ExtractedRating = NoRating THEN (IF eIn.tree = "WORK" THEN 3 ELSE 4)
            ELSE IF ExtractedRating >= 8 THEN 5
            ELSE IF ExtractedRating >= 6 THEN 4
            ELSE IF ExtractedRating >= 4 THEN 3
            ELSE 2

\* C19: the stability of the record is 5 when the path contains 'goals' or
\* 'user-context', else 4 for an ALGORITHM learning, else 2 for a WORK
\* session, and otherwise the default of the category: 4 for a SYSTEM
\* learning.
Cex_C19_StabilityFromPath ==
    eOut # NoMemory =>
        eOut.stability =
            IF Includes(eOut.file_path, <<"g","o","a","l","s">>)
               \/ Includes(eOut.file_path, <<"u","s","e","r","-","c","o","n","t","e","x","t">>)
            THEN 5
            ELSE IF eIn.tree = "ALGORITHM" THEN 4
            ELSE IF eIn.tree = "WORK" THEN 2
            ELSE 4

-----------------------------------------------------------------------------
(* Claims about the report                                                 *)

\* C24: rendering is deterministic: two calls of generateMarkdown on the same
\* SynthesisResult return the identical text.
Cex_C24_RenderDeterministic ==
    Len(gReports) = 2 => gReports[1] = gReports[2]

-----------------------------------------------------------------------------
(* Claims about the context loader                                         *)

\* The files that qualify: modified after the cutoff of the call, no
\* sentiment-rating file, with a top-level heading.
Qualifying == {i \in DOMAIN lDisk : lDisk[i].kind = "titled" /\ lDisk[i].mtime > lOut.cutoff}

\* The file a summary was made from.
FileOfSummary(summary) == CHOOSE i \in DOMAIN lDisk : lDisk[i].title = summary.title

\* C30: loadRecentLearnings returns at most 5 entries, and they are the 5
\* most recently modified qualifying files of ALGORITHM and SYSTEM together
\* (all of them when there are fewer), the most recent first.
Cex_C30_FiveMostRecent ==
    lOut.loaded =>
        /\ Len(lOut.learnings) = Min(5, Cardinality(Qualifying))
        /\ \A k \in DOMAIN lOut.learnings : FileOfSummary(lOut.learnings[k]) \in Qualifying
        /\ \A j, k \in DOMAIN lOut.learnings :
             j < k => /\ lOut.learnings[j] # lOut.learnings[k]
                      /\ lDisk[FileOfSummary(lOut.learnings[j])].mtime
                           >= lDisk[FileOfSummary(lOut.learnings[k])].mtime
        /\ \A i \in Qualifying :
             (\A k \in DOMAIN lOut.learnings : FileOfSummary(lOut.learnings[k]) # i)
             => \A k \in DOMAIN lOut.learnings :
                  lDisk[FileOfSummary(lOut.learnings[k])].mtime >= lDisk[i].mtime

=========================================================================
